---------------------------- MODULE Spec2Model ----------------------------
(***************************************************************************)
(* market-indikator: the snapshot pipeline.                                *)
(*                                                                         *)
(*   ingest --Publish--> Bus --tradeCh--> engine goroutine                 *)
(*        engine: ProcessTrade, RingBuffer.Add, offer to snapshotCh,       *)
(*                Logger.Log                                               *)
(*   snapshotCh --> Hub.run --client.send--> writePump --> connection      *)
(*   serveWs: RingBuffer.GetAll, history frames, register with the hub     *)
(*                                                                         *)
(* Go channels are FIFO queues with a capacity; an unbuffered channel      *)
(* (register, unregister) is a rendezvous, modelled as one step in which   *)
(* the sender hands over and the hub's select case runs.                   *)
(***************************************************************************)
EXTENDS Integers, Sequences, FiniteSets, TLC

(***************************************************************************)
(* Bounds.  The program's capacities (3600, 1024, 4096) are scaled down.   *)
(***************************************************************************)
bufferSize    == 2   \* ring capacity used by main (3600 in the program)
MaxRingCap    == 3   \* SpecRing: capacities 1..MaxRingCap are constructed
MaxAdds       == 5   \* SpecRing: number of Add calls explored
TradeChCap    == 1   \* eventBus.Subscribe(1024)
SnapshotChCap == 1   \* make(chan model.Snapshot, 1024)
SendCap       == 1   \* Client.send, make(chan []byte, 4096)
chanSize      == 1   \* Logger.ch, make(chan LogRow, chanSize)
MaxTrades     == 3   \* trades the ingest worker publishes
MaxSubs       == 2   \* SpecBus: Subscribe calls explored
MaxSubCap     == 2   \* SpecBus: capacities 1..MaxSubCap are subscribed
MaxDepthUpdates == 11 \* SpecBook: number of UpdateDepth calls explored
MaxIntOf      == 128 \* IntOf: largest magnitude int(x) is evaluated for
MaxOIUpdates  == 5   \* SpecOI: number of oi.Engine.Update calls explored
MaxEngTrades  == 3   \* SpecEngine: number of ProcessTrade calls explored
MaxDen        == 1000 \* largest denominator a scorer value is kept exactly with
MaxMixTrades  == 1   \* SpecMix: number of ProcessTrade calls explored
MaxMixDepth   == 1   \* SpecMix: number of UpdateDepth calls explored
MaxMixOI      == 1   \* SpecMix: number of oi.Engine.Update calls explored

\* program constants
MaxDepthLevels  == 20  \* orderbook.MaxDepthLevels
ImbalanceLevels == 10  \* orderbook.ImbalanceLevels
OIRingLen       == 20  \* oi.Engine.ring, [20]float64
NumHTF          == 5   \* engine.NumHTF
BehaviorNeutral         == 0
BehaviorLongBuildup     == 1
BehaviorShortBuildup    == 2
BehaviorShortCovering   == 3
BehaviorLongLiquidation == 4

\* trade.Time values (unix ms) the ingest worker may deliver
TradeTimes == {1500, 2000}

\* observer connections; under Spec only those of Connecting ever connect
Clients == {"c1", "c2"}
Connecting == {"c1"}

VARIABLES
    rb,           \* RingBuffer: data, capacity, head, size, full
    added,        \* history: every snapshot passed to Add, in call order
    subscribers,  \* Bus.subscribers: sequence of [buf, cap] channels
    published,    \* history: every trade passed to Publish, in call order
    received,     \* history: per subscriber, the trades taken from its channel
    epc,          \* engine goroutine position: "recv", "offer", "log"
    esnap,        \* engine goroutine local snap
    lastLogTime,  \* engine goroutine local lastLogTime
    snapshotCh,   \* chan model.Snapshot between engine and hub
    logCh,        \* Logger.ch
    logged,       \* rows the logger goroutine has taken from Logger.ch
    hubClients,   \* Hub.clients
    send,         \* Client.send buffer, per client
    sendClosed,   \* whether close(client.send) has run, per client
    spc,          \* serveWs position per connection
    snapshots,    \* serveWs local snapshots (the GetAll result), per connection
    histAt,       \* history: Len(added) when serveWs called GetAll
    rpc,          \* readPump position per client
    wpc,          \* writePump position per client
    conn,         \* frames written to the connection, in order
    connClosed,   \* whether conn.Close() has run
    dropped,      \* history: snapshots the hub's default branch dropped, per client
    taken,        \* history: ids of the snapshots Hub.run has taken from its input
    book,         \* orderbook.Book, its published Pressure included
    depthUpdates, \* history: number of UpdateDepth calls so far
    steadyBid,    \* history: every update so far kept the best bid and moved the best ask
    pressLog,     \* history (SpecMix): the Pressure values UpdateDepth published, in order
    oiEng,        \* oi.Engine, its published State included
    oiLog,        \* history: per Update call its arguments and the Behavior it published
    eng,          \* engine.Engine, its Scorer and its published price included
    pt,           \* the running ProcessTrade call: position, trade, delta, press, oiState
    ptOut,        \* the last ProcessTrade result: snapshot, scorer input, values read
    ptLog,        \* history: the trades ProcessTrade has finished, in order
    feed,         \* per websocket ingest worker: position in loop, delay, history flags
    oip,          \* OIPoller.loop: position, polls made, outcome of the last poll
    ctx,          \* the context of main: "live" or "done"
    mainpc,       \* main: "waiting" for a signal, "cancelled", "returned"
    flushed,      \* Logger.run: how many of the logged rows have reached the file
    cancelRows,   \* history: how many rows the Logger had accepted when cancel() ran
    running,      \* the workers main started that are still in their loops
    codec         \* a Snapshot, its AppendMsgPack bytes, and what a reader decodes

ringVars == <<rb, added>>
busVars  == <<subscribers, published, received>>
engVars  == <<epc, esnap, lastLogTime, snapshotCh, logCh, logged>>
hubVars  == <<hubClients, send, sendClosed, spc, snapshots, histAt, rpc, wpc,
              conn, connClosed, dropped, taken>>
vars     == <<rb, added, subscribers, published, received, epc, esnap,
              lastLogTime, snapshotCh, logCh, logged, hubClients, send,
              sendClosed, spc, snapshots, histAt, rpc, wpc, conn, connClosed,
              dropped, taken, book, depthUpdates, steadyBid, pressLog, oiEng, oiLog,
              eng, pt,
              ptOut, ptLog, feed, oip, ctx, mainpc, flushed, cancelRows, running, codec>>
bookVars == <<book, depthUpdates, steadyBid, pressLog>>
oiVars   == <<oiEng, oiLog>>
tradeVars == <<eng, pt, ptOut, ptLog>>
lifeVars == <<feed, oip, ctx, mainpc, flushed, cancelRows, running, codec>>
anaVars  == <<book, depthUpdates, steadyBid, pressLog, oiEng, oiLog, eng, pt,
              ptOut, ptLog, feed, oip, ctx, mainpc, flushed, cancelRows, running, codec>>

Min(a, b) == IF a < b THEN a ELSE b

\* the last n elements of s
LastN(s, n) == SubSeq(s, Len(s) - n + 1, Len(s))

\* the zero model.Snapshot a fresh backing array holds
ZeroSnapshot == [id |-> 0, Time |-> 0, Candle1sTime |-> 0]

(***************************************************************************)
(* RingBuffer (internal/state).  Go's 0-based data[i] is data[i + 1].      *)
(***************************************************************************)
NewRingBuffer(capacity) ==
    [data     |-> [i \in 1..capacity |-> ZeroSnapshot],
     capacity |-> capacity,
     head     |-> 0,
     size     |-> 0,
     full     |-> FALSE]

RingAddNoWrap(r, snap) ==
    [r EXCEPT !.data[r.head + 1] = snap,
              !.head = IF r.head + 1 < r.capacity THEN r.head + 1 ELSE r.head,
              !.size = IF r.full THEN r.size ELSE r.size + 1,
              !.full = r.full \/ (r.size + 1 = r.capacity)]

RingAdd(r, snap) ==
    [r EXCEPT !.data[r.head + 1] = snap,
              !.head = (r.head + 1) % r.capacity,
              !.size = IF r.full THEN r.size ELSE r.size + 1,
              !.full = r.full \/ (r.size + 1 = r.capacity)]

\* GetAll without the rotation of a full buffer: data[0:size] as stored
GetAllUnrotated(r) ==
    IF r.size = 0 THEN << >> ELSE SubSeq(r.data, 1, r.size)

GetAll(r) ==
    IF r.size = 0 THEN << >>
    ELSE IF ~r.full THEN SubSeq(r.data, 1, r.head)
    ELSE SubSeq(r.data, r.head + 1, r.capacity) \o SubSeq(r.data, 1, r.head)

Size(r) == r.size


(***************************************************************************)
(* Channels.  A buffered Go channel is [buf, cap]; a select with a default *)
(* branch offers the value and drops it when the buffer is full.           *)
(***************************************************************************)
MakeChan(capacity) == [buf |-> << >>, cap |-> capacity]

HasRoom(ch) == Len(ch.buf) < ch.cap

Offer(ch, x) == IF HasRoom(ch) THEN [ch EXCEPT !.buf = Append(@, x)] ELSE ch

(***************************************************************************)
(* Trade (internal/model) as the pipeline reads it: ID and Time (unix ms). *)
(***************************************************************************)
Trade(id, time) == [ID |-> id, Time |-> time]

(***************************************************************************)
(* Bus (internal/bus)                                                      *)
(***************************************************************************)
NewBus == << >>

\* the loop of Publish cut short: it returns at the first full subscriber
PublishStopAtFull(subs, t) ==
    [i \in DOMAIN subs |->
        IF \E j \in 1..i : ~HasRoom(subs[j]) THEN subs[i] ELSE Offer(subs[i], t)]

\* for _, ch := range b.subscribers { select { case ch <- t: default: } }
PublishAll(subs, t) == [i \in DOMAIN subs |-> Offer(subs[i], t)]

Subscribe(capacity) ==
    /\ Len(subscribers) < MaxSubs
    /\ subscribers' = Append(subscribers, MakeChan(capacity))
    /\ received' = Append(received, << >>)
    /\ UNCHANGED <<published, ringVars, engVars, hubVars>>
    /\ UNCHANGED anaVars

Publish(t) ==
    /\ Len(published) < MaxTrades
    /\ subscribers' = PublishAll(subscribers, t)
    /\ published' = Append(published, t)
    /\ UNCHANGED <<received, ringVars, engVars, hubVars>>
    /\ UNCHANGED anaVars

\* the ingest worker hands the next parsed aggTrade to the Bus
IngestPublish == \E time \in TradeTimes : Publish(Trade(Len(published) + 1, time))

\* a subscriber other than the engine takes the next trade from its channel
SubscriberRecv(i) ==
    /\ i \in DOMAIN subscribers
    /\ subscribers[i].buf # << >>
    /\ subscribers' = [subscribers EXCEPT ![i].buf = Tail(@)]
    /\ received' = [received EXCEPT ![i] = Append(@, Head(subscribers[i].buf))]
    /\ UNCHANGED <<published, ringVars, engVars, hubVars>>
    /\ UNCHANGED anaVars

(***************************************************************************)
(* Engine goroutine of main (cmd/orderflow/main.go).  tradeCh is the first *)
(* subscription of the Bus.                                                *)
(***************************************************************************)
\* Engine.ProcessTrade, the fields the pipeline reads: snap.Time = t.Time and
\* snap.Candle1s.Time = tradeTimeSec (updateCandle leaves c.Time = bucketTime
\* on both of its branches).  id names the trade the snapshot was made from.
ProcessTrade(t) ==
    LET tradeTimeSec == t.Time \div 1000
    IN  [id |-> t.ID, Time |-> t.Time, Candle1sTime |-> tradeTimeSec]

\* csvlogger.BuildLogRow, the fields the pipeline reads
BuildLogRow(snap) == [Timestamp |-> snap.Time, id |-> snap.id]

\* the receive leaving the trade it took at the head of the channel
EngineRecvPeek ==
    /\ epc = "recv"
    /\ Len(subscribers) >= 1
    /\ subscribers[1].buf # << >>
    /\ LET trade == Head(subscribers[1].buf)
           snap  == ProcessTrade(trade)
       IN  /\ subscribers' = subscribers
           /\ received' = [received EXCEPT ![1] = Append(@, trade)]
           /\ esnap' = snap
           /\ rb' = RingAdd(rb, snap)
           /\ added' = Append(added, snap)
    /\ epc' = "offer"
    /\ UNCHANGED <<published, lastLogTime, snapshotCh, logCh, logged, hubVars>>
    /\ UNCHANGED anaVars

\* for trade := range tradeCh, then ProcessTrade and ringBuffer.Add
EngineRecv ==
    /\ epc = "recv"
    /\ Len(subscribers) >= 1
    /\ subscribers[1].buf # << >>
    /\ LET trade == Head(subscribers[1].buf)
           snap  == ProcessTrade(trade)
       IN  /\ subscribers' = [subscribers EXCEPT ![1].buf = Tail(@)]
           /\ received' = [received EXCEPT ![1] = Append(@, trade)]
           /\ esnap' = snap
           /\ rb' = RingAdd(rb, snap)
           /\ added' = Append(added, snap)
    /\ epc' = "offer"
    /\ UNCHANGED <<published, lastLogTime, snapshotCh, logCh, logged, hubVars>>
    /\ UNCHANGED anaVars

\* the offer as a plain channel send: it waits for room
EngineOfferBlocking ==
    /\ epc = "offer"
    /\ HasRoom(snapshotCh)
    /\ snapshotCh' = Offer(snapshotCh, esnap)
    /\ epc' = "log"
    /\ UNCHANGED <<esnap, lastLogTime, logCh, logged, ringVars, busVars, hubVars>>
    /\ UNCHANGED anaVars

\* select { case snapshotCh <- snap: default: }
EngineOffer ==
    /\ epc = "offer"
    /\ snapshotCh' = Offer(snapshotCh, esnap)
    /\ epc' = "log"
    /\ UNCHANGED <<esnap, lastLogTime, logCh, logged, ringVars, busVars, hubVars>>
    /\ UNCHANGED anaVars

\* Logger.Log: select { case l.ch <- row: default: }
Log(ch, row) == Offer(ch, row)

EngineLog ==
    /\ epc = "log"
    /\ IF esnap.Candle1sTime # lastLogTime
       THEN /\ lastLogTime' = esnap.Candle1sTime
            /\ logCh' = Log(logCh, BuildLogRow(esnap))
       ELSE UNCHANGED <<lastLogTime, logCh>>
    /\ epc' = "recv"
    /\ UNCHANGED <<esnap, snapshotCh, logged, ringVars, busVars, hubVars>>
    /\ UNCHANGED anaVars

\* Logger.run takes a row from l.ch and writes it
LoggerRun ==
    /\ logCh.buf # << >>
    /\ logCh' = [logCh EXCEPT !.buf = Tail(@)]
    /\ logged' = Append(logged, Head(logCh.buf))
    /\ UNCHANGED <<epc, esnap, lastLogTime, snapshotCh, ringVars, busVars, hubVars>>
    /\ UNCHANGED anaVars

(***************************************************************************)
(* Frames on an observer connection (internal/broadcast).                  *)
(***************************************************************************)
\* header := []byte{0xce, byte(n >> 24), byte(n >> 16), byte(n >> 8), byte(n)}
HeaderFrame(n) ==
    [kind  |-> "header",
     bytes |-> <<206, (n \div 16777216) % 256, (n \div 65536) % 256,
                 (n \div 256) % 256, n % 256>>]

\* snap.AppendMsgPack(...) sent as one binary message; the frame carries snap
SnapFrame(snap) == [kind |-> "snapshot", snap |-> snap]

\* the frames serveWs writes before it registers the client (lines 121-144)
HistoryFrames(snaps) ==
    IF Len(snaps) > 0
    THEN <<HeaderFrame(Len(snaps))>> \o [i \in 1..Len(snaps) |-> SnapFrame(snaps[i])]
    ELSE << >>

(***************************************************************************)
(* serveWs.  The history writes touch only the new connection, which no    *)
(* other goroutine holds before registration, so GetAll and the writes     *)
(* that follow it are one step; written is the count of WriteMessage calls *)
(* that succeed before the first error.                                    *)
(***************************************************************************)
\* upgrader.Upgrade fails: serveWs returns without a connection
ServeWsUpgradeFail(c) ==
    /\ spc[c] = "idle"
    /\ spc' = [spc EXCEPT ![c] = "failed"]
    /\ UNCHANGED <<hubClients, send, sendClosed, snapshots, histAt, rpc, wpc,
                   conn, connClosed, dropped, taken, ringVars, busVars, engVars>>
    /\ UNCHANGED anaVars

ServeWsHistory(c) ==
    /\ spc[c] = "idle"
    /\ LET snaps  == GetAll(rb)
           frames == HistoryFrames(snaps)
       IN  /\ snapshots' = [snapshots EXCEPT ![c] = snaps]
           /\ histAt' = [histAt EXCEPT ![c] = Len(added)]
           /\ \E written \in 0..Len(frames) :
                /\ conn' = [conn EXCEPT ![c] = SubSeq(frames, 1, written)]
                /\ IF written < Len(frames)
                   THEN /\ connClosed' = [connClosed EXCEPT ![c] = TRUE]
                        /\ spc' = [spc EXCEPT ![c] = "failed"]
                   ELSE /\ UNCHANGED connClosed
                        /\ spc' = [spc EXCEPT ![c] = "register"]
    /\ UNCHANGED <<hubClients, send, sendClosed, rpc, wpc, dropped, taken,
                   ringVars, busVars, engVars>>
    /\ UNCHANGED anaVars

(***************************************************************************)
(* Hub.run: one step per select case.                                      *)
(***************************************************************************)
\* case client := <-h.register (serveWs line 147 hands the client over and
\* then starts writePump and readPump)
HubRegister(c) ==
    /\ spc[c] = "register"
    /\ hubClients' = hubClients \cup {c}
    /\ spc' = [spc EXCEPT ![c] = "live"]
    /\ rpc' = [rpc EXCEPT ![c] = "read"]
    /\ wpc' = [wpc EXCEPT ![c] = "run"]
    /\ UNCHANGED <<send, sendClosed, snapshots, histAt, conn, connClosed,
                   dropped, taken, ringVars, busVars, engVars>>
    /\ UNCHANGED anaVars

\* the unregister case without its body's delete
UnregisterKeep(clients, c) == clients

\* delete(h.clients, client)
UnregisterDelete(clients, c) == clients \ {c}

\* case client := <-h.unregister (readPump's deferred send)
HubUnregister(c) ==
    /\ rpc[c] = "unreg"
    /\ IF c \in hubClients
       THEN /\ hubClients' = UnregisterDelete(hubClients, c)
            /\ sendClosed' = [sendClosed EXCEPT ![c] = TRUE]
       ELSE UNCHANGED <<hubClients, sendClosed>>
    /\ rpc' = [rpc EXCEPT ![c] = "close"]
    /\ UNCHANGED <<send, spc, snapshots, histAt, wpc, conn, connClosed,
                   dropped, taken, ringVars, busVars, engVars>>
    /\ UNCHANGED anaVars

\* the fan-out loop leaving after its first successful send
FanOutFirst(clients, q, msg) ==
    LET room == {c \in clients : Len(q[c]) < SendCap}
    IN  IF room = {} THEN q
        ELSE LET first == CHOOSE c \in room : TRUE
             IN  [q EXCEPT ![first] = Append(@, msg)]

\* the fan-out keeping the newest frame: a full queue loses its oldest frame
FanOutLatest(clients, q, msg) ==
    [c \in DOMAIN q |->
        IF c \in clients
        THEN IF Len(q[c]) < SendCap THEN Append(q[c], msg)
             ELSE Append(Tail(q[c]), msg)
        ELSE q[c]]

\* the fan-out ranging over every client that ever connected, not h.clients
FanOutEveryClient(clients, q, msg) ==
    [c \in DOMAIN q |->
        IF Len(q[c]) < SendCap THEN Append(q[c], msg) ELSE q[c]]

\* for client := range h.clients { select { case client.send <- msg: default: } }
FanOut(clients, q, msg) ==
    [c \in DOMAIN q |->
        IF c \in clients /\ Len(q[c]) < SendCap THEN Append(q[c], msg) ELSE q[c]]

\* the fan-out with a plain send: the hub waits until every client has room
HubBroadcastBlocking ==
    /\ snapshotCh.buf # << >>
    /\ \A c \in hubClients : Len(send[c]) < SendCap
    /\ LET snap == Head(snapshotCh.buf)
       IN  /\ send' = FanOut(hubClients, send, SnapFrame(snap))
           /\ taken' = taken \cup {snap.id}
           /\ snapshotCh' = [snapshotCh EXCEPT !.buf = Tail(@)]
    /\ UNCHANGED <<epc, esnap, lastLogTime, logCh, logged, hubClients,
                   sendClosed, spc, snapshots, histAt, rpc, wpc, conn,
                   connClosed, dropped, ringVars, busVars>>
    /\ UNCHANGED anaVars

\* case snap := <-input
HubBroadcast ==
    /\ snapshotCh.buf # << >>
    /\ LET snap == Head(snapshotCh.buf)
       IN  /\ send' = FanOut(hubClients, send, SnapFrame(snap))
           /\ dropped' = [c \in Clients |->
                            IF c \in hubClients /\ Len(send[c]) >= SendCap
                            THEN dropped[c] \cup {snap.id} ELSE dropped[c]]
           /\ taken' = taken \cup {snap.id}
           /\ snapshotCh' = [snapshotCh EXCEPT !.buf = Tail(@)]
    /\ UNCHANGED <<epc, esnap, lastLogTime, logCh, logged, hubClients,
                   sendClosed, spc, snapshots, histAt, rpc, wpc, conn,
                   connClosed, ringVars, busVars>>
    /\ UNCHANGED anaVars

(***************************************************************************)
(* Client.readPump                                                         *)
(***************************************************************************)
\* c.conn.ReadMessage() returns an error (the peer left, or the connection
\* was closed): the loop breaks and the deferred function starts
ReadPumpError(c) ==
    /\ rpc[c] = "read"
    /\ rpc' = [rpc EXCEPT ![c] = "unreg"]
    /\ UNCHANGED <<hubClients, send, sendClosed, spc, snapshots, histAt, wpc,
                   conn, connClosed, dropped, taken, ringVars, busVars, engVars>>
    /\ UNCHANGED anaVars

\* c.conn.Close() after the unregister send returned
ReadPumpClose(c) ==
    /\ rpc[c] = "close"
    /\ connClosed' = [connClosed EXCEPT ![c] = TRUE]
    /\ rpc' = [rpc EXCEPT ![c] = "done"]
    /\ UNCHANGED <<hubClients, send, sendClosed, spc, snapshots, histAt, wpc,
                   conn, dropped, taken, ringVars, busVars, engVars>>
    /\ UNCHANGED anaVars

(***************************************************************************)
(* Client.writePump                                                        *)
(***************************************************************************)
\* message, ok := <-c.send with ok; NextWriter, Write and Close succeed
WritePumpWrite(c) ==
    /\ wpc[c] = "run"
    /\ send[c] # << >>
    /\ ~connClosed[c]
    /\ send' = [send EXCEPT ![c] = Tail(@)]
    /\ conn' = [conn EXCEPT ![c] = Append(@, Head(send[c]))]
    /\ UNCHANGED <<hubClients, sendClosed, spc, snapshots, histAt, rpc, wpc,
                   connClosed, dropped, taken, ringVars, busVars, engVars>>
    /\ UNCHANGED anaVars

\* message, ok := <-c.send with ok; NextWriter or Close returns an error (always
\* on a closed connection): writePump returns and its deferred Close runs
WritePumpError(c) ==
    /\ wpc[c] = "run"
    /\ send[c] # << >>
    /\ send' = [send EXCEPT ![c] = Tail(@)]
    /\ connClosed' = [connClosed EXCEPT ![c] = TRUE]
    /\ wpc' = [wpc EXCEPT ![c] = "done"]
    /\ UNCHANGED <<hubClients, sendClosed, spc, snapshots, histAt, rpc, conn,
                   dropped, taken, ringVars, busVars, engVars>>
    /\ UNCHANGED anaVars

\* message, ok := <-c.send with !ok (closed and drained): a close message is
\* written, writePump returns and its deferred Close runs
WritePumpChannelClosed(c) ==
    /\ wpc[c] = "run"
    /\ send[c] = << >>
    /\ sendClosed[c]
    /\ connClosed' = [connClosed EXCEPT ![c] = TRUE]
    /\ wpc' = [wpc EXCEPT ![c] = "done"]
    /\ UNCHANGED <<hubClients, send, sendClosed, spc, snapshots, histAt, rpc,
                   conn, dropped, taken, ringVars, busVars, engVars>>
    /\ UNCHANGED anaVars

(***************************************************************************)
(* Numbers.  The program computes in float64; the model computes exactly.  *)
(* A quantity is a0 + a1*e + a2*e^2 with integer coefficients, written     *)
(* <<a0, a1, a2>>, where e is 1e-9 (the smallest quantity of the depth     *)
(* inputs).  The coefficients of the model stay far below 10^9 in size, so *)
(* the sign of a quantity is the sign of its first non-zero coefficient.   *)
(* A ratio of two quantities is kept as the pair [num, den] with den > 0.  *)
(***************************************************************************)
NInt(k) == <<k, 0, 0>>

Eps == <<0, 1, 0>>

NAdd(x, y) == <<x[1] + y[1], x[2] + y[2], x[3] + y[3]>>

NSub(x, y) == <<x[1] - y[1], x[2] - y[2], x[3] - y[3]>>

\* product of two quantities; the operands of the model have no e^2 part
NMul(x, y) ==
    <<x[1] * y[1],
      x[1] * y[2] + x[2] * y[1],
      x[1] * y[3] + x[2] * y[2] + x[3] * y[1]>>

Sgn(k) == IF k > 0 THEN 1 ELSE IF k < 0 THEN -1 ELSE 0

NSign(x) ==
    IF x[1] # 0 THEN Sgn(x[1]) ELSE IF x[2] # 0 THEN Sgn(x[2]) ELSE Sgn(x[3])

NLt(x, y) == NSign(NSub(x, y)) < 0

NLeq(x, y) == NSign(NSub(x, y)) <= 0

FInt(k) == [num |-> NInt(k), den |-> NInt(1)]

\* x / y for y > 0
FDiv(x, y) == [num |-> x, den |-> y]

FAdd(f, g) ==
    [num |-> NAdd(NMul(f.num, g.den), NMul(g.num, f.den)),
     den |-> NMul(f.den, g.den)]

FSub(f, g) ==
    [num |-> NSub(NMul(f.num, g.den), NMul(g.num, f.den)),
     den |-> NMul(f.den, g.den)]

\* k * f for an integer k
FScale(k, f) == [num |-> NMul(NInt(k), f.num), den |-> f.den]

FLt(f, g) == NLt(NMul(f.num, g.den), NMul(g.num, f.den))

FLeq(f, g) == NLeq(NMul(f.num, g.den), NMul(g.num, f.den))

FEq(f, g) == FLeq(f, g) /\ FLeq(g, f)

\* the conversion rounding to the nearest integer instead (halves away from zero)
IntNearest(f) ==
    IF NSign(f.num) >= 0
    THEN CHOOSE k \in 0..MaxIntOf :
           /\ FLeq(FInt(2 * k - 1), FScale(2, f))
           /\ k = MaxIntOf \/ FLt(FScale(2, f), FInt(2 * k + 1))
    ELSE CHOOSE k \in -MaxIntOf..0 :
           /\ FLeq(FScale(2, f), FInt(2 * k + 1))
           /\ k = -MaxIntOf \/ FLt(FInt(2 * k - 1), FScale(2, f))

\* Go's int(x) for a float64 x: the integer part, rounding toward zero
IntOf(f) ==
    IF NSign(f.num) >= 0
    THEN CHOOSE k \in 0..MaxIntOf :
           /\ FLeq(FInt(k), f)
           /\ k = MaxIntOf \/ FLt(f, FInt(k + 1))
    ELSE CHOOSE k \in -MaxIntOf..0 :
           /\ FLeq(f, FInt(k))
           /\ k = -MaxIntOf \/ FLt(FInt(k - 1), f)

(***************************************************************************)
(* orderbook.Book (internal/orderbook).  Prices are integers.              *)
(***************************************************************************)
PriceLevel(price, quantity) == [Price |-> price, Quantity |-> quantity]

\* the zero value &Pressure{}
ZeroPressure ==
    [BestBid |-> 0, BestAsk |-> 0, Spread |-> 0,
     BidVol |-> NInt(0), AskVol |-> NInt(0), Imbalance |-> FInt(0),
     LiqVel |-> NInt(0), Absorb |-> FInt(0), Score |-> 0]

NewBook ==
    [Bids |-> [i \in 1..MaxDepthLevels |-> PriceLevel(0, NInt(0))],
     Asks |-> [i \in 1..MaxDepthLevels |-> PriceLevel(0, NInt(0))],
     BidN |-> 0, AskN |-> 0,
     prevBidVol |-> NInt(0), prevAskVol |-> NInt(0),
     prevBestBid |-> 0, bidStableCount |-> 0,
     prevBestAsk |-> 0, askStableCount |-> 0,
     pressure |-> ZeroPressure]

\* Book.GetPressure: one atomic load of the published pointer
GetPressure(b) == b.pressure

clampF(v, lo, hi) ==
    IF FLt(v, FInt(lo)) THEN FInt(lo)
    ELSE IF FLt(FInt(hi), v) THEN FInt(hi)
    ELSE v

clampI(v, lo, hi) == IF v < lo THEN lo ELSE IF v > hi THEN hi ELSE v

\* p.BidVol += b.Bids[i].Quantity for i < levels
RECURSIVE SumQuantity(_, _)
SumQuantity(side, levels) ==
    IF levels = 0 THEN NInt(0)
    ELSE NAdd(SumQuantity(side, levels - 1), side[levels].Quantity)

\* the early return leaving the published Pressure as it was
KeepPressure(b) == b

\* atomic.StorePointer(&b.pressure, p) with p the zero Pressure
StoreZeroPressure(b) == [b EXCEPT !.pressure = ZeroPressure]

\* the spread taken the other way round
SpreadBidMinusAsk(bestBid, bestAsk) == bestBid - bestAsk

\* p.Spread = p.BestAsk - p.BestBid
SpreadOf(bestBid, bestAsk) == bestAsk - bestBid

\* the stability counter counting the updates that moved the best price
StableCountOnChange(prevBest, best, count) ==
    IF prevBest > 0
    THEN IF best # prevBest THEN count + 1 ELSE 0
    ELSE count

\* if b.prevBestBid > 0 { if p.BestBid == b.prevBestBid { count++ } else { count = 0 } }
StableCount(prevBest, best, count) ==
    IF prevBest > 0
    THEN IF best = prevBest THEN count + 1 ELSE 0
    ELSE count

computeAndPublish(b) ==
    IF b.BidN = 0 \/ b.AskN = 0 THEN StoreZeroPressure(b)
    ELSE
    LET BestBid == b.Bids[1].Price
        BestAsk == b.Asks[1].Price
        BidVol  == SumQuantity(b.Bids, Min(ImbalanceLevels, b.BidN))
        AskVol  == SumQuantity(b.Asks, Min(ImbalanceLevels, b.AskN))
        total   == NAdd(BidVol, AskVol)
        Imbalance ==
            IF NSign(total) > 0 THEN FDiv(NSub(BidVol, AskVol), total)
            ELSE FInt(0)
        LiqVel ==
            IF NSign(b.prevBidVol) > 0 \/ NSign(b.prevAskVol) > 0
            THEN NSub(NSub(BidVol, b.prevBidVol), NSub(AskVol, b.prevAskVol))
            ELSE NInt(0)
        bidStableCount == StableCount(b.prevBestBid, BestBid, b.bidStableCount)
        askStableCount == StableCount(b.prevBestAsk, BestAsk, b.askStableCount)
        bidStability == clampF(FDiv(NInt(bidStableCount), NInt(10)), 0, 1)
        askStability == clampF(FDiv(NInt(askStableCount), NInt(10)), 0, 1)
        absorb  == FSub(bidStability, askStability)
        Absorb  == clampF(absorb, -1, 1)
        liqNorm == clampF(FDiv(LiqVel, NInt(100)), -1, 1)
        \* w1*Imbalance*100 + w2*liqNorm*100 + w3*Absorb*100 with
        \* w1 = 0.50, w2 = 0.30, w3 = 0.20
        raw     == FAdd(FAdd(FScale(50, Imbalance), FScale(30, liqNorm)),
                        FScale(20, Absorb))
    IN  [b EXCEPT
           !.prevBidVol = BidVol,
           !.prevAskVol = AskVol,
           !.bidStableCount = bidStableCount,
           !.askStableCount = askStableCount,
           !.prevBestBid = BestBid,
           !.prevBestAsk = BestAsk,
           !.pressure =
              [BestBid |-> BestBid, BestAsk |-> BestAsk,
               Spread |-> SpreadOf(BestBid, BestAsk),
               BidVol |-> BidVol, AskVol |-> AskVol, Imbalance |-> Imbalance,
               LiqVel |-> LiqVel, Absorb |-> Absorb,
               Score |-> clampI(IntOf(raw), -100, 100)]]

\* the copy of the first MaxDepthLevels levels into the fixed arrays; entries
\* past the new count keep what an earlier update left there
CopyDepth(b, bids, asks) ==
    LET bidN == Min(Len(bids), MaxDepthLevels)
        askN == Min(Len(asks), MaxDepthLevels)
    IN  [b EXCEPT
           !.BidN = bidN,
           !.Bids = [i \in 1..MaxDepthLevels |-> IF i <= bidN THEN bids[i] ELSE @[i]],
           !.AskN = askN,
           !.Asks = [i \in 1..MaxDepthLevels |-> IF i <= askN THEN asks[i] ELSE @[i]]]

\* Book.UpdateDepth.  steadyBid records whether every call so far had both
\* sides present, the best bid of the call before it and another best ask.
UpdateDepth(bids, asks) ==
    /\ book' = computeAndPublish(CopyDepth(book, bids, asks))
    /\ depthUpdates' = depthUpdates + 1
    /\ steadyBid' =
         /\ steadyBid
         /\ bids # << >> /\ asks # << >>
         /\ depthUpdates > 0 =>
              /\ bids[1].Price = book.Bids[1].Price
              /\ asks[1].Price # book.Asks[1].Price

\* the levels of one depthUpdate event, as connectAndConsume parses them:
\* a level whose quantity is not positive is left out
ParseLevels(raw) == SelectSeq(raw, LAMBDA lvl : NSign(lvl.Quantity) > 0)

\* n levels of quantity q each, from price first on in steps of step
Ladder(n, first, step, q) ==
    [i \in 1..n |-> PriceLevel(first + (i - 1) * step, NInt(q))]

\* depthUpdate events the depth feed may deliver (bids descending, asks
\* ascending, as Binance sends them)
DepthEvents ==
    { [b |-> <<PriceLevel(30000, NInt(60)), PriceLevel(29999, NInt(40))>>,
       a |-> <<PriceLevel(30001, Eps)>>],
      [b |-> <<PriceLevel(30000, NInt(60)), PriceLevel(29999, NInt(40))>>,
       a |-> <<PriceLevel(30002, NInt(70)), PriceLevel(30003, NInt(5))>>],
      [b |-> <<PriceLevel(30000, NInt(0)), PriceLevel(29999, NInt(300))>>,
       a |-> <<PriceLevel(30001, NInt(10))>>],
      [b |-> << >>,
       a |-> <<PriceLevel(30001, NInt(10))>>],
      [b |-> <<PriceLevel(30000, NInt(60))>>,
       a |-> <<PriceLevel(30001, NInt(0))>>],
      [b |-> <<PriceLevel(30002, NInt(20))>>,
       a |-> <<PriceLevel(30001, NInt(20))>>],
      [b |-> Ladder(ImbalanceLevels + 1, 30000, -1, 10),
       a |-> Ladder(MaxDepthLevels + 1, 30001, 1, 5)] }

\* DepthIngester.connectAndConsume: one event read, parsed and handed to the Book
DepthIngest ==
    /\ depthUpdates < MaxDepthUpdates
    /\ \E ev \in DepthEvents : UpdateDepth(ParseLevels(ev.b), ParseLevels(ev.a))
    /\ UNCHANGED <<pressLog, ringVars, busVars, engVars, hubVars, oiVars, tradeVars, lifeVars>>

\* depthUpdate events of SpecMix
MixDepthEvents ==
    { [b |-> <<PriceLevel(30000, NInt(60)), PriceLevel(29999, NInt(40))>>,
       a |-> <<PriceLevel(30001, Eps)>>],
      [b |-> <<PriceLevel(30000, NInt(60)), PriceLevel(29999, NInt(40))>>,
       a |-> <<PriceLevel(30002, NInt(70)), PriceLevel(30003, NInt(5))>>] }

\* a Book after one UpdateDepth call with a 100 : 1e-9 book
WarmBook ==
    computeAndPublish(CopyDepth(NewBook,
        <<PriceLevel(30000, NInt(60)), PriceLevel(29999, NInt(40))>>,
        <<PriceLevel(30001, Eps)>>))

\* the depth worker of SpecMix, every published Pressure recorded
MixDepthIngest ==
    /\ depthUpdates < 1 + MaxMixDepth
    /\ \E ev \in MixDepthEvents : UpdateDepth(ParseLevels(ev.b), ParseLevels(ev.a))
    /\ pressLog' = Append(pressLog, book'.pressure)
    /\ UNCHANGED <<ringVars, busVars, engVars, hubVars, oiVars, tradeVars, lifeVars>>

(***************************************************************************)
(* oi.Engine (internal/oi).  Open interest and prices are integers.        *)
(***************************************************************************)
ZeroState ==
    [OI |-> 0, OIDelta1s |-> 0, OIDelta1m |-> 0, Behavior |-> 0, PriceAtOI |-> 0]

NewEngine ==
    [state |-> ZeroState, prevOI |-> 0, prevPrice |-> 0,
     ring |-> [i \in 0..(OIRingLen - 1) |-> 0], ringIdx |-> 0, ringLen |-> 0]

\* Engine.GetState: one atomic load of the published pointer
GetState(e) == e.state

\* the classification with the two mixed cases exchanged
BehaviorMixedSwapped(prevOI, prevPrice, oi, currentPrice) ==
    IF prevOI > 0 /\ prevPrice > 0
    THEN LET oiChange    == oi - prevOI
             priceChange == currentPrice - prevPrice
             oiUp      == oiChange * 10000 > prevOI
             oiDown    == oiChange * 10000 < -prevOI
             priceUp   == priceChange > 1
             priceDown == priceChange < -1
         IN  IF priceUp /\ oiUp THEN BehaviorLongBuildup
             ELSE IF priceDown /\ oiUp THEN BehaviorShortCovering
             ELSE IF priceUp /\ oiDown THEN BehaviorShortBuildup
             ELSE IF priceDown /\ oiDown THEN BehaviorLongLiquidation
             ELSE BehaviorNeutral
    ELSE BehaviorNeutral

\* the behavior classification of Update; oiThreshold = prevOI * 0.0001 is
\* compared after multiplying both sides by 10000, priceThreshold is 1.0
BehaviorOf(prevOI, prevPrice, oi, currentPrice) ==
    IF prevOI > 0 /\ prevPrice > 0
    THEN LET oiChange    == oi - prevOI
             priceChange == currentPrice - prevPrice
             oiUp      == oiChange * 10000 > prevOI
             oiDown    == oiChange * 10000 < -prevOI
             priceUp   == priceChange > 1
             priceDown == priceChange < -1
         IN  IF priceUp /\ oiUp THEN BehaviorLongBuildup
             ELSE IF priceDown /\ oiUp THEN BehaviorShortBuildup
             ELSE IF priceUp /\ oiDown THEN BehaviorShortCovering
             ELSE IF priceDown /\ oiDown THEN BehaviorLongLiquidation
             ELSE BehaviorNeutral
    ELSE BehaviorNeutral

\* Engine.Update reading the ring one update early
UpdateEngineRingEarly(e, oi, currentPrice) ==
    LET s == [OI |-> oi,
              PriceAtOI |-> currentPrice,
              OIDelta1s |-> IF e.prevOI > 0 THEN oi - e.prevOI ELSE 0,
              OIDelta1m |-> IF e.ringLen >= OIRingLen - 1 THEN oi - e.ring[e.ringIdx] ELSE 0,
              Behavior |-> BehaviorOf(e.prevOI, e.prevPrice, oi, currentPrice)]
    IN  [state |-> s,
         prevOI |-> oi,
         prevPrice |-> currentPrice,
         ring |-> [e.ring EXCEPT ![e.ringIdx] = oi],
         ringIdx |-> (e.ringIdx + 1) % OIRingLen,
         ringLen |-> IF e.ringLen < OIRingLen THEN e.ringLen + 1 ELSE e.ringLen]

\* Engine.Update as a function of the engine
UpdateEngine(e, oi, currentPrice) ==
    LET s == [OI |-> oi,
              PriceAtOI |-> currentPrice,
              OIDelta1s |-> IF e.prevOI > 0 THEN oi - e.prevOI ELSE 0,
              OIDelta1m |-> IF e.ringLen >= OIRingLen THEN oi - e.ring[e.ringIdx] ELSE 0,
              Behavior |-> BehaviorOf(e.prevOI, e.prevPrice, oi, currentPrice)]
    IN  [state |-> s,
         prevOI |-> oi,
         prevPrice |-> currentPrice,
         ring |-> [e.ring EXCEPT ![e.ringIdx] = oi],
         ringIdx |-> (e.ringIdx + 1) % OIRingLen,
         ringLen |-> IF e.ringLen < OIRingLen THEN e.ringLen + 1 ELSE e.ringLen]

\* Engine.Update
Update(oi, currentPrice) ==
    /\ oiEng' = UpdateEngine(oiEng, oi, currentPrice)
    /\ oiLog' = Append(oiLog, [oi |-> oi, price |-> currentPrice,
                               behavior |-> oiEng'.state.Behavior,
                               state |-> oiEng'.state])

\* (openInterest, price) pairs a poll may hand to Update: the open interest
\* of the response and the price the trade engine published last (0 before
\* the first trade)
OISamples ==
    { <<100000, 30000>>, <<100100, 30100>>, <<100050, 30000>>,
      <<100150, 29950>>, <<100100, 30050>>, <<100010, 30001>>,
      <<100000, 0>>, <<0, 30000>> }

\* OIPoller.poll with a response that decodes and parses
OIPoll ==
    /\ Len(oiLog) < MaxOIUpdates
    /\ \E sample \in OISamples : Update(sample[1], sample[2])
    /\ UNCHANGED <<ringVars, busVars, engVars, hubVars, bookVars, tradeVars, lifeVars>>

\* an oi.Engine after n polls that all returned 100000 at price 30000
RECURSIVE WarmEngine(_)
WarmEngine(n) ==
    IF n = 0 THEN NewEngine
    ELSE CHOOSE e \in {UpdateEngine(prev, 100000, 30000) :
                         prev \in {WarmEngine(n - 1)}} : TRUE

\* the history of those n polls
WarmLog(n) ==
    [i \in 1..n |-> [oi |-> 100000, price |-> 30000,
                     behavior |-> WarmEngine(i).state.Behavior,
                     state |-> WarmEngine(i).state]]

\* open interest values the polls of SpecMix return
MixOIValues == {100100, 100050}

\* OIPoller.poll of SpecMix: currentPrice := p.priceFn() is Engine.GetPrice
MixOIPoll ==
    /\ Len(oiLog) < OIRingLen + MaxMixOI
    /\ \E oi \in MixOIValues : Update(oi, eng.pricePtr)
    /\ UNCHANGED <<ringVars, busVars, engVars, hubVars, bookVars, tradeVars, lifeVars>>

(***************************************************************************)
(* Numbers of the trade engine and the scorer.  A value is the fraction    *)
(* [n, d] in lowest terms with d > 0.  A result is kept exactly while its  *)
(* denominator is at most MaxDen and is rounded toward zero to a multiple  *)
(* of 1/MaxDen otherwise, as float64 keeps a result exactly when it can    *)
(* and rounds it when it cannot.                                           *)
(***************************************************************************)
Abs(k) == IF k < 0 THEN -k ELSE k

RECURSIVE GCD(_, _)
GCD(a, b) == IF b = 0 THEN a ELSE GCD(b, a % b)

RNorm(n, d) ==
    LET norm[a \in Int, b \in Int] ==
            LET g  == GCD(Abs(a), b)
                n1 == Abs(a) \div g
                d1 == b \div g
                m  == IF d1 <= MaxDen THEN n1
                      ELSE (n1 \div d1) * MaxDen + ((n1 % d1) * MaxDen) \div d1
                e  == IF d1 <= MaxDen THEN d1 ELSE MaxDen
                h  == GCD(m, e)
            IN  [n |-> Sgn(a) * (m \div h), d |-> e \div h]
    IN  norm[n, d]

RInt(k) == [n |-> k, d |-> 1]

\* the values the operators below work on
Rat == [n : Int, d : Nat]

\* the decimal constant m / s
Dec(m, s) == RNorm(m, s)

RNeg(x) == LET neg[a \in Rat] == [n |-> -a.n, d |-> a.d] IN neg[x]

RAbs(x) == LET abs[a \in Rat] == [n |-> Abs(a.n), d |-> a.d] IN abs[x]

RAdd(x, y) ==
    LET add[a \in Rat, b \in Rat] == RNorm(a.n * b.d + b.n * a.d, a.d * b.d)
    IN  add[x, y]

RSub(x, y) == RAdd(x, RNeg(y))

RMul(x, y) ==
    LET mul[a \in Rat, b \in Rat] == RNorm(a.n * b.n, a.d * b.d)
    IN  mul[x, y]

\* x / y for y # 0
RDiv(x, y) ==
    LET div[a \in Rat, b \in Rat] == RNorm(Sgn(b.n) * a.n * b.d, a.d * Abs(b.n))
    IN  div[x, y]

RLt(x, y) ==
    LET lt[a \in Rat, b \in Rat] == a.n * b.d < b.n * a.d
    IN  lt[x, y]

(***************************************************************************)
(* pressure.Scorer (internal/pressure)                                     *)
(***************************************************************************)
WeightAggressive  == Dec(45, 100)
WeightPassive     == Dec(30, 100)
WeightPositioning == Dec(25, 100)
AlphaCVD          == Dec(60, 100)
AlphaDelta        == Dec(40, 100)
BetaOIDelta       == Dec(50, 100)
BetaBehavior      == Dec(50, 100)
SmoothingAlpha    == Dec(333, 1000)
SigmaAlpha        == Dec(5, 100)
SigmaEpsilon      == Dec(1, 1000)

behaviorSignal ==
    [b \in 0..4 |->
        CASE b = 0 -> RInt(0)
          [] b = 1 -> RInt(1)
          [] b = 2 -> RInt(-1)
          [] b = 3 -> Dec(5, 10)
          [] b = 4 -> Dec(-5, 10)]

Input(cvd, delta1s, obScore, oiDelta1m, oiBehavior) ==
    [CVD |-> cvd, Delta1s |-> delta1s, OBScore |-> obScore,
     OIDelta1m |-> oiDelta1m, OIBehavior |-> oiBehavior]

NewScorer ==
    [FinalScore |-> RInt(0), smoothed |-> RInt(0), hasInit |-> FALSE,
     prevCVD |-> RInt(0), cvdVel |-> RInt(0),
     sigmaCVDVel |-> RInt(1), sigmaDelta |-> RInt(1), sigmaOI |-> RInt(1)]

\* clamp without its two comparisons
NoClamp(v, lo, hi) == v

clamp(v, lo, hi) ==
    LET cl[a \in Rat] ==
            IF RLt(a, RInt(lo)) THEN RInt(lo)
            ELSE IF RLt(RInt(hi), a) THEN RInt(hi)
            ELSE a
    IN  cl[v]

\* alpha*value + (1.0-alpha)*prev
emaUpdate(prev, value, alpha) ==
    LET ema[p \in Rat, v \in Rat, a \in Rat] ==
            RAdd(RMul(a, v), RMul(RSub(RInt(1), a), p))
    IN  ema[prev, value, alpha]

adaptiveNorm(x, sigma) ==
    LET floored[sg \in Rat] == IF RLt(sg, SigmaEpsilon) THEN SigmaEpsilon ELSE sg
    IN  clamp(RDiv(x, floored[sigma]), -1, 1)

\* Scorer.Update normalizing against the sigmas of the call before
ScorerUpdateStaleSigma(s, in) ==
    LET cvdVel      == RSub(in.CVD, s.prevCVD)
        sigmaCVDVel == emaUpdate(s.sigmaCVDVel, RAbs(cvdVel), SigmaAlpha)
        sigmaDelta  == emaUpdate(s.sigmaDelta, RAbs(in.Delta1s), SigmaAlpha)
        sigmaOI     == emaUpdate(s.sigmaOI, RAbs(in.OIDelta1m), SigmaAlpha)
        normCVDVel  == adaptiveNorm(cvdVel, s.sigmaCVDVel)
        normDelta   == adaptiveNorm(in.Delta1s, s.sigmaDelta)
        normOIDelta == adaptiveNorm(in.OIDelta1m, s.sigmaOI)
        aggressive  == RAdd(RMul(AlphaCVD, normCVDVel), RMul(AlphaDelta, normDelta))
        passive     == RDiv(RInt(in.OBScore), RInt(100))
        behSig      == IF in.OIBehavior >= 0 /\ in.OIBehavior < 5
                       THEN behaviorSignal[in.OIBehavior] ELSE RInt(0)
        positioning == RAdd(RMul(BetaOIDelta, normOIDelta), RMul(BetaBehavior, behSig))
        raw         == RMul(RAdd(RAdd(RMul(WeightAggressive, aggressive),
                                      RMul(WeightPassive, passive)),
                                 RMul(WeightPositioning, positioning)),
                            RInt(100))
        smoothed    == IF ~s.hasInit THEN raw
                       ELSE RAdd(RMul(SmoothingAlpha, raw),
                                 RMul(RSub(RInt(1), SmoothingAlpha), s.smoothed))
    IN  [FinalScore |-> clamp(smoothed, -100, 100), smoothed |-> smoothed,
         hasInit |-> TRUE, prevCVD |-> in.CVD, cvdVel |-> cvdVel,
         sigmaCVDVel |-> sigmaCVDVel, sigmaDelta |-> sigmaDelta,
         sigmaOI |-> sigmaOI]

\* Scorer.Update: the scorer after the call; its FinalScore is the result
ScorerUpdate(s, in) ==
    LET cvdVel      == RSub(in.CVD, s.prevCVD)
        sigmaCVDVel == emaUpdate(s.sigmaCVDVel, RAbs(cvdVel), SigmaAlpha)
        sigmaDelta  == emaUpdate(s.sigmaDelta, RAbs(in.Delta1s), SigmaAlpha)
        sigmaOI     == emaUpdate(s.sigmaOI, RAbs(in.OIDelta1m), SigmaAlpha)
        normCVDVel  == adaptiveNorm(cvdVel, sigmaCVDVel)
        normDelta   == adaptiveNorm(in.Delta1s, sigmaDelta)
        normOIDelta == adaptiveNorm(in.OIDelta1m, sigmaOI)
        aggressive  == RAdd(RMul(AlphaCVD, normCVDVel), RMul(AlphaDelta, normDelta))
        passive     == RDiv(RInt(in.OBScore), RInt(100))
        behSig      == IF in.OIBehavior >= 0 /\ in.OIBehavior < 5
                       THEN behaviorSignal[in.OIBehavior] ELSE RInt(0)
        positioning == RAdd(RMul(BetaOIDelta, normOIDelta), RMul(BetaBehavior, behSig))
        raw         == RMul(RAdd(RAdd(RMul(WeightAggressive, aggressive),
                                      RMul(WeightPassive, passive)),
                                 RMul(WeightPositioning, positioning)),
                            RInt(100))
        smoothed    == IF ~s.hasInit THEN raw
                       ELSE RAdd(RMul(SmoothingAlpha, raw),
                                 RMul(RSub(RInt(1), SmoothingAlpha), s.smoothed))
    IN  [FinalScore |-> clamp(smoothed, -100, 100), smoothed |-> smoothed,
         hasInit |-> TRUE, prevCVD |-> in.CVD, cvdVel |-> cvdVel,
         sigmaCVDVel |-> sigmaCVDVel, sigmaDelta |-> sigmaDelta,
         sigmaOI |-> sigmaOI]

(***************************************************************************)
(* engine.Engine (internal/engine).  Prices and times are integers.        *)
(***************************************************************************)
htfDefs ==
    << [Seconds |-> 300,   Alpha |-> Dec(39, 1000)],
       [Seconds |-> 900,   Alpha |-> Dec(20, 1000)],
       [Seconds |-> 3600,  Alpha |-> Dec(10, 1000)],
       [Seconds |-> 14400, Alpha |-> Dec(4, 1000)],
       [Seconds |-> 86400, Alpha |-> Dec(2, 1000)] >>

\* the zero CandleDelta with its scoreAlpha set
NewCandle(alpha) ==
    [Time |-> 0, Open |-> 0, High |-> 0, Low |-> 0, Close |-> 0,
     BuyVol |-> RInt(0), SellVol |-> RInt(0), Delta |-> RInt(0),
     AvgScore |-> RInt(0), scoreAlpha |-> alpha]

NewTradeEngine ==
    [CVD |-> RInt(0), LastPrice |-> 0,
     Candle1s |-> NewCandle(Dec(333, 1000)),
     Candle1m |-> NewCandle(Dec(65, 1000)),
     HTF |-> [i \in 1..NumHTF |-> NewCandle(htfDefs[i].Alpha)],
     scorer |-> NewScorer,
     pricePtr |-> 0]

\* Engine.GetPrice: one atomic load of the published price
GetPrice(e) == e.pricePtr

\* updateCandle without "if price < c.Low { c.Low = price }"
updateCandleKeepLow(c, bucketTime, price, qty, delta, score) ==
    IF c.Time # bucketTime
    THEN [c EXCEPT !.Time = bucketTime, !.Open = price, !.High = price,
                   !.Low = price, !.Close = price, !.BuyVol = RInt(0),
                   !.SellVol = RInt(0), !.Delta = RInt(0), !.AvgScore = score]
    ELSE [c EXCEPT !.High = IF price > c.High THEN price ELSE c.High,
                   !.Close = price,
                   !.BuyVol = IF RLt(RInt(0), delta) THEN RAdd(c.BuyVol, qty) ELSE c.BuyVol,
                   !.SellVol = IF RLt(RInt(0), delta) THEN c.SellVol ELSE RAdd(c.SellVol, qty),
                   !.Delta = RAdd(c.Delta, delta),
                   !.AvgScore = RAdd(RMul(c.scoreAlpha, score),
                                     RMul(RSub(RInt(1), c.scoreAlpha), c.AvgScore))]

\* updateCandle whose new-bucket branch leaves c.Open as it was
updateCandleKeepOpen(c, bucketTime, price, qty, delta, score) ==
    IF c.Time # bucketTime
    THEN [c EXCEPT !.Time = bucketTime, !.High = price,
                   !.Low = price, !.Close = price, !.BuyVol = RInt(0),
                   !.SellVol = RInt(0), !.Delta = RInt(0), !.AvgScore = score]
    ELSE [c EXCEPT !.High = IF price > c.High THEN price ELSE c.High,
                   !.Low = IF price < c.Low THEN price ELSE c.Low,
                   !.Close = price,
                   !.BuyVol = IF RLt(RInt(0), delta) THEN RAdd(c.BuyVol, qty) ELSE c.BuyVol,
                   !.SellVol = IF RLt(RInt(0), delta) THEN c.SellVol ELSE RAdd(c.SellVol, qty),
                   !.Delta = RAdd(c.Delta, delta),
                   !.AvgScore = RAdd(RMul(c.scoreAlpha, score),
                                     RMul(RSub(RInt(1), c.scoreAlpha), c.AvgScore))]

\* updateCandle whose new-bucket branch counts the trade that opens the bucket
updateCandleCountOpening(c, bucketTime, price, qty, delta, score) ==
    IF c.Time # bucketTime
    THEN [c EXCEPT !.Time = bucketTime, !.Open = price, !.High = price,
                   !.Low = price, !.Close = price,
                   !.BuyVol = IF RLt(RInt(0), delta) THEN qty ELSE RInt(0),
                   !.SellVol = IF RLt(RInt(0), delta) THEN RInt(0) ELSE qty,
                   !.Delta = delta, !.AvgScore = score]
    ELSE [c EXCEPT !.High = IF price > c.High THEN price ELSE c.High,
                   !.Low = IF price < c.Low THEN price ELSE c.Low,
                   !.Close = price,
                   !.BuyVol = IF RLt(RInt(0), delta) THEN RAdd(c.BuyVol, qty) ELSE c.BuyVol,
                   !.SellVol = IF RLt(RInt(0), delta) THEN c.SellVol ELSE RAdd(c.SellVol, qty),
                   !.Delta = RAdd(c.Delta, delta),
                   !.AvgScore = RAdd(RMul(c.scoreAlpha, score),
                                     RMul(RSub(RInt(1), c.scoreAlpha), c.AvgScore))]

\* updateCandle adding the quantity to the other volume
updateCandleSwapVols(c, bucketTime, price, qty, delta, score) ==
    IF c.Time # bucketTime
    THEN [c EXCEPT !.Time = bucketTime, !.Open = price, !.High = price,
                   !.Low = price, !.Close = price, !.BuyVol = RInt(0),
                   !.SellVol = RInt(0), !.Delta = RInt(0), !.AvgScore = score]
    ELSE [c EXCEPT !.High = IF price > c.High THEN price ELSE c.High,
                   !.Low = IF price < c.Low THEN price ELSE c.Low,
                   !.Close = price,
                   !.BuyVol = IF RLt(RInt(0), delta) THEN c.BuyVol ELSE RAdd(c.BuyVol, qty),
                   !.SellVol = IF RLt(RInt(0), delta) THEN RAdd(c.SellVol, qty) ELSE c.SellVol,
                   !.Delta = RAdd(c.Delta, delta),
                   !.AvgScore = RAdd(RMul(c.scoreAlpha, score),
                                     RMul(RSub(RInt(1), c.scoreAlpha), c.AvgScore))]

updateCandle(c, bucketTime, price, qty, delta, score) ==
    IF c.Time # bucketTime
    THEN [c EXCEPT !.Time = bucketTime, !.Open = price, !.High = price,
                   !.Low = price, !.Close = price, !.BuyVol = RInt(0),
                   !.SellVol = RInt(0), !.Delta = RInt(0), !.AvgScore = score]
    ELSE [c EXCEPT !.High = IF price > c.High THEN price ELSE c.High,
                   !.Low = IF price < c.Low THEN price ELSE c.Low,
                   !.Close = price,
                   !.BuyVol = IF RLt(RInt(0), delta) THEN RAdd(c.BuyVol, qty) ELSE c.BuyVol,
                   !.SellVol = IF RLt(RInt(0), delta) THEN c.SellVol ELSE RAdd(c.SellVol, qty),
                   !.Delta = RAdd(c.Delta, delta),
                   !.AvgScore = RAdd(RMul(c.scoreAlpha, score),
                                     RMul(RSub(RInt(1), c.scoreAlpha), c.AvgScore))]

\* snapshotCandle: the candle without its scoreAlpha
snapshotCandle(c) ==
    [Time |-> c.Time, Open |-> c.Open, High |-> c.High, Low |-> c.Low,
     Close |-> c.Close, BuyVol |-> c.BuyVol, SellVol |-> c.SellVol,
     Delta |-> c.Delta, AvgScore |-> c.AvgScore]

\* a model.Trade as the engine reads it
TradeOf(price, quantity, time, isBuyer) ==
    [Price |-> price, Quantity |-> quantity, Time |-> time, IsBuyer |-> isBuyer]

\* the delta with its two branches exchanged
SignedDeltaSwapped(t) == IF t.IsBuyer THEN t.Quantity ELSE RNeg(t.Quantity)

\* delta = -qty if t.IsBuyer, else qty
SignedDelta(t) == IF t.IsBuyer THEN RNeg(t.Quantity) ELSE t.Quantity

\* the frame of ProcessTrade between two calls
IdleFrame == [pc |-> "idle"]

\* ProcessTrade lines 436-453: CVD, LastPrice and the price publication
PTBegin(t) ==
    /\ pt.pc = "idle"
    /\ eng' = [eng EXCEPT !.CVD = RAdd(@, SignedDelta(t)),
                          !.LastPrice = t.Price,
                          !.pricePtr = t.Price]
    /\ pt' = [pc |-> "press", t |-> t, delta |-> SignedDelta(t)]
    /\ UNCHANGED <<ptOut, ptLog>>

\* press := e.book.GetPressure()
PTGetPressure ==
    /\ pt.pc = "press"
    /\ pt' = [pc |-> "oi", t |-> pt.t, delta |-> pt.delta,
              press |-> GetPressure(book)]
    /\ UNCHANGED <<eng, ptOut, ptLog>>

\* oiState := e.oiEngine.GetState()
PTGetState ==
    /\ pt.pc = "oi"
    /\ pt' = [pc |-> "score", t |-> pt.t, delta |-> pt.delta,
              press |-> pt.press, oiState |-> GetState(oiEng)]
    /\ UNCHANGED <<eng, ptOut, ptLog>>

\* the orderbook projection taken from a second GetPressure call
OrderbookSnapshotReread(press) ==
    [BestBid |-> book.pressure.BestBid, BestAsk |-> book.pressure.BestAsk,
     Spread |-> book.pressure.Spread, Imbalance |-> book.pressure.Imbalance,
     Score |-> book.pressure.Score]

\* model.OrderbookSnapshot{...} of the snapshot literal
OrderbookSnapshot(press) ==
    [BestBid |-> press.BestBid, BestAsk |-> press.BestAsk,
     Spread |-> press.Spread, Imbalance |-> press.Imbalance,
     Score |-> press.Score]

\* model.OISnapshot{...} of the snapshot literal
OISnapshot(oiState) ==
    [OI |-> oiState.OI, OIDelta1s |-> oiState.OIDelta1s,
     OIDelta1m |-> oiState.OIDelta1m, Behavior |-> oiState.Behavior]

\* ProcessTrade with the 1s candle updated before the scorer reads its delta
PTFinishCandlesFirst ==
    /\ pt.pc = "score"
    /\ \E in \in {Input(eng.CVD,
                        updateCandle(eng.Candle1s, pt.t.Time \div 1000, pt.t.Price,
                                     pt.t.Quantity, pt.delta, RInt(0)).Delta,
                        pt.press.Score,
                        RInt(pt.oiState.OIDelta1m), pt.oiState.Behavior)} :
       \E scorer \in {ScorerUpdate(eng.scorer, in)} :
       LET t   == pt.t
           tradeTimeSec == t.Time \div 1000
           tradeTimeMin == (tradeTimeSec \div 60) * 60
           finalScore == scorer.FinalScore
           c1s == updateCandle(eng.Candle1s, tradeTimeSec, t.Price,
                               t.Quantity, pt.delta, finalScore)
           c1m == updateCandle(eng.Candle1m, tradeTimeMin, t.Price,
                               t.Quantity, pt.delta, finalScore)
           htf == [i \in 1..NumHTF |->
                     updateCandle(eng.HTF[i],
                                  (tradeTimeSec \div htfDefs[i].Seconds) * htfDefs[i].Seconds,
                                  t.Price, t.Quantity, pt.delta, finalScore)]
           snap == [Price |-> t.Price, Time |-> t.Time, CVD |-> eng.CVD,
                    Candle1s |-> snapshotCandle(c1s),
                    Candle1m |-> snapshotCandle(c1m),
                    Orderbook |-> OrderbookSnapshot(pt.press),
                    OI |-> OISnapshot(pt.oiState),
                    FinalScore |-> finalScore,
                    HTF |-> [i \in 1..NumHTF |-> snapshotCandle(htf[i])]]
       IN  /\ eng' = [eng EXCEPT !.scorer = scorer, !.Candle1s = c1s,
                                 !.Candle1m = c1m, !.HTF = htf]
           /\ ptOut' = [snap |-> snap, input |-> in, press |-> pt.press,
                        oiState |-> pt.oiState,
                        pressAtReturn |-> book.pressure,
                        stateAtReturn |-> oiEng.state]
           /\ ptLog' = Append(ptLog, t)
    /\ pt' = IdleFrame

\* ProcessTrade lines 459-507: the scorer, the seven candles, the snapshot
PTFinish ==
    /\ pt.pc = "score"
    /\ \E in \in {Input(eng.CVD, eng.Candle1s.Delta, pt.press.Score,
                        RInt(pt.oiState.OIDelta1m), pt.oiState.Behavior)} :
       \E scorer \in {ScorerUpdate(eng.scorer, in)} :
       LET t   == pt.t
           tradeTimeSec == t.Time \div 1000
           tradeTimeMin == (tradeTimeSec \div 60) * 60
           finalScore == scorer.FinalScore
           c1s == updateCandle(eng.Candle1s, tradeTimeSec, t.Price,
                               t.Quantity, pt.delta, finalScore)
           c1m == updateCandle(eng.Candle1m, tradeTimeMin, t.Price,
                               t.Quantity, pt.delta, finalScore)
           htf == [i \in 1..NumHTF |->
                     updateCandle(eng.HTF[i],
                                  (tradeTimeSec \div htfDefs[i].Seconds) * htfDefs[i].Seconds,
                                  t.Price, t.Quantity, pt.delta, finalScore)]
           snap == [Price |-> t.Price, Time |-> t.Time, CVD |-> eng.CVD,
                    Candle1s |-> snapshotCandle(c1s),
                    Candle1m |-> snapshotCandle(c1m),
                    Orderbook |-> OrderbookSnapshot(pt.press),
                    OI |-> OISnapshot(pt.oiState),
                    FinalScore |-> finalScore,
                    HTF |-> [i \in 1..NumHTF |-> snapshotCandle(htf[i])]]
       IN  /\ eng' = [eng EXCEPT !.scorer = scorer, !.Candle1s = c1s,
                                 !.Candle1m = c1m, !.HTF = htf]
           /\ ptOut' = [snap |-> snap, input |-> in, press |-> pt.press,
                        oiState |-> pt.oiState,
                        pressAtReturn |-> book.pressure,
                        stateAtReturn |-> oiEng.state]
           /\ ptLog' = Append(ptLog, t)
    /\ pt' = IdleFrame

\* trades the engine goroutine may take from the Bus
EngTrades ==
    { TradeOf(30000, Dec(5, 10), 1500, FALSE),
      TradeOf(30000, Dec(5, 10), 500, FALSE),
      TradeOf(30010, Dec(5, 10), 1900, TRUE),
      TradeOf(29990, RInt(5), 1900, FALSE),
      TradeOf(30005, RInt(2), 61500, TRUE),
      TradeOf(30010, Dec(5, 10), 59500, FALSE),
      TradeOf(29990, Dec(5, 10), 60500, TRUE),
      TradeOf(30000, Dec(5, 10), 86401500, FALSE) }

\* the engine goroutine takes a trade and calls ProcessTrade
EngineTakeTrade ==
    /\ Len(ptLog) < MaxEngTrades
    /\ \E t \in EngTrades : PTBegin(t)
    /\ UNCHANGED <<ringVars, busVars, engVars, hubVars, bookVars, oiVars, lifeVars>>

\* trades of SpecMix
MixTrades ==
    { TradeOf(30000, Dec(5, 10), 1500, FALSE),
      TradeOf(29990, RInt(5), 1900, TRUE) }

\* the engine goroutine of SpecMix
MixTakeTrade ==
    /\ Len(ptLog) < MaxMixTrades
    /\ \E t \in MixTrades : PTBegin(t)
    /\ UNCHANGED <<ringVars, busVars, engVars, hubVars, bookVars, oiVars, lifeVars>>

\* the rest of the call, statement by statement
EngineProcessTrade ==
    /\ PTGetPressure \/ PTGetState \/ PTFinish
    /\ UNCHANGED <<ringVars, busVars, engVars, hubVars, bookVars, oiVars, lifeVars>>

(***************************************************************************)
(* The analytics objects as main constructs them.                          *)
(***************************************************************************)
InitBookObj ==
    /\ book = NewBook
    /\ depthUpdates = 0
    /\ steadyBid = TRUE
    /\ pressLog = << >>

InitTradeEngine ==
    /\ eng = NewTradeEngine
    /\ pt = IdleFrame
    /\ ptOut = [snap |-> ZeroSnapshot]
    /\ ptLog = << >>

\* no Snapshot is being encoded
IdleCodec == [pc |-> "idle", in |-> << >>, out |-> << >>, back |-> << >>, used |-> 0]

\* the workers main starts, none of them run yet
Feeds == {"trade", "depth"}

\* main.go: the goroutines started by Ingester.Start, DepthIngester.Start,
\* OIPoller.Start, "go func() { for trade := range tradeCh ... }",
\* NewBroadcaster (Hub.run) and NewLogger (Logger.run)
Workers == Feeds \cup {"oi", "engine", "hub", "sink"}

reconnectDelay == 1
maxReconnectDelay == 30
depthReconnect == 1
depthMaxReconn == 30

MaxFeedErrs == 2
MaxFeedMsgs == 1
MaxPolls == 2

FeedBase(w) == IF w = "trade" THEN reconnectDelay ELSE depthReconnect
FeedCap(w)  == IF w = "trade" THEN maxReconnectDelay ELSE depthMaxReconn

\* a worker as go i.loop(ctx) starts it: "delay := reconnectDelay"
NewFeed(w) == [pc |-> "top", delay |-> FeedBase(w), errs |-> 0, served |-> FALSE]

NewPoller == [pc |-> "poll", polls |-> 0, last |-> "none"]

InitLife ==
    /\ feed = [w \in Feeds |-> NewFeed(w)]
    /\ oip = NewPoller
    /\ ctx = "live"
    /\ mainpc = "waiting"
    /\ flushed = 0
    /\ cancelRows = 0
    /\ running = Workers
    /\ codec = IdleCodec

InitAnalytics ==
    /\ InitBookObj
    /\ oiEng = NewEngine
    /\ oiLog = << >>
    /\ InitTradeEngine
    /\ InitLife

(***************************************************************************)
(* Spec: the pipeline after main has set it up (main.go lines 26-98); the  *)
(* ring starts empty (no CSV history to pre-load).                         *)
(***************************************************************************)
InitHub ==
    /\ hubClients = {}
    /\ send = [c \in Clients |-> << >>]
    /\ sendClosed = [c \in Clients |-> FALSE]
    /\ spc = [c \in Clients |-> IF c \in Connecting THEN "idle" ELSE "absent"]
    /\ snapshots = [c \in Clients |-> << >>]
    /\ histAt = [c \in Clients |-> 0]
    /\ rpc = [c \in Clients |-> "none"]
    /\ wpc = [c \in Clients |-> "none"]
    /\ conn = [c \in Clients |-> << >>]
    /\ connClosed = [c \in Clients |-> FALSE]
    /\ dropped = [c \in Clients |-> {}]
    /\ taken = {}

InitEngine ==
    /\ epc = "recv"
    /\ esnap = ZeroSnapshot
    /\ lastLogTime = 0
    /\ snapshotCh = MakeChan(SnapshotChCap)
    /\ logCh = MakeChan(chanSize)
    /\ logged = << >>

InitPipeline ==
    /\ rb = NewRingBuffer(bufferSize)
    /\ added = << >>
    /\ subscribers = <<MakeChan(TradeChCap)>>
    /\ published = << >>
    /\ received = << << >> >>
    /\ InitEngine
    /\ InitHub

Init ==
    /\ InitPipeline
    /\ InitAnalytics

Next ==
    \/ IngestPublish
    \/ EngineRecv
    \/ EngineOffer
    \/ EngineLog
    \/ LoggerRun
    \/ HubBroadcast
    \/ \E c \in Clients : ServeWsUpgradeFail(c)
    \/ \E c \in Clients : ServeWsHistory(c)
    \/ \E c \in Clients : HubRegister(c)
    \/ \E c \in Clients : HubUnregister(c)
    \/ \E c \in Clients : ReadPumpError(c)
    \/ \E c \in Clients : ReadPumpClose(c)
    \/ \E c \in Clients : WritePumpWrite(c)
    \/ \E c \in Clients : WritePumpError(c)
    \/ \E c \in Clients : WritePumpChannelClosed(c)

Spec == Init /\ [][Next]_vars

(***************************************************************************)
(* SpecHub: the same pipeline from the state in which every observer of    *)
(* Clients has connected and registered while the ring was still empty     *)
(* (serveWs wrote nothing, writePump and readPump are running).  The CSV   *)
(* sink is not scheduled: rows stay in Logger.ch and later ones are        *)
(* dropped by Logger.Log.                                                  *)
(***************************************************************************)
InitHubLive ==
    /\ hubClients = Clients
    /\ send = [c \in Clients |-> << >>]
    /\ sendClosed = [c \in Clients |-> FALSE]
    /\ spc = [c \in Clients |-> "live"]
    /\ snapshots = [c \in Clients |-> << >>]
    /\ histAt = [c \in Clients |-> 0]
    /\ rpc = [c \in Clients |-> "read"]
    /\ wpc = [c \in Clients |-> "run"]
    /\ conn = [c \in Clients |-> << >>]
    /\ connClosed = [c \in Clients |-> FALSE]
    /\ dropped = [c \in Clients |-> {}]
    /\ taken = {}

InitLive ==
    /\ rb = NewRingBuffer(bufferSize)
    /\ added = << >>
    /\ subscribers = <<MakeChan(TradeChCap)>>
    /\ published = << >>
    /\ received = << << >> >>
    /\ InitEngine
    /\ InitHubLive
    /\ InitAnalytics

NextHub ==
    \/ IngestPublish
    \/ EngineRecv
    \/ EngineOffer
    \/ EngineLog
    \/ HubBroadcast
    \/ \E c \in Clients : HubUnregister(c)
    \/ \E c \in Clients : ReadPumpError(c)
    \/ \E c \in Clients : ReadPumpClose(c)
    \/ \E c \in Clients : WritePumpWrite(c)
    \/ \E c \in Clients : WritePumpError(c)
    \/ \E c \in Clients : WritePumpChannelClosed(c)

SpecHub == InitLive /\ [][NextHub]_vars

(***************************************************************************)
(* SpecRing: a RingBuffer of any capacity 1..MaxRingCap and a sequence of  *)
(* Add calls.                                                              *)
(***************************************************************************)
InitRing ==
    /\ \E capacity \in 1..MaxRingCap : rb = NewRingBuffer(capacity)
    /\ added = << >>
    /\ subscribers = NewBus
    /\ published = << >>
    /\ received = << >>
    /\ InitEngine
    /\ InitHub
    /\ InitAnalytics

Add ==
    /\ Len(added) < MaxAdds
    /\ \E time \in TradeTimes :
         LET snap == ProcessTrade(Trade(Len(added) + 1, time))
         IN  /\ rb' = RingAdd(rb, snap)
             /\ added' = Append(added, snap)
    /\ UNCHANGED <<busVars, engVars, hubVars>>
    /\ UNCHANGED anaVars

NextRing == Add

SpecRing == InitRing /\ [][NextRing]_vars

(***************************************************************************)
(* SpecBus: a Bus, Subscribe calls with capacities 1..MaxSubCap, Publish   *)
(* calls and the subscribers' receives, in any order.                      *)
(***************************************************************************)
InitBus ==
    /\ rb = NewRingBuffer(bufferSize)
    /\ added = << >>
    /\ subscribers = NewBus
    /\ published = << >>
    /\ received = << >>
    /\ InitEngine
    /\ InitHub
    /\ InitAnalytics

NextBus ==
    \/ \E capacity \in 1..MaxSubCap : Subscribe(capacity)
    \/ IngestPublish
    \/ \E i \in 1..MaxSubs : SubscriberRecv(i)

SpecBus == InitBus /\ [][NextBus]_vars

(***************************************************************************)
(* FairSpec: the pipeline with the scheduling the hub's select loop and    *)
(* readPump's deferred function rely on: a sender blocked on h.unregister  *)
(* is eventually served (the hub's other cases never block), and the       *)
(* deferred conn.Close() then runs.                                        *)
(***************************************************************************)
FairSpec ==
    /\ Spec
    /\ \A c \in Clients : WF_vars(HubUnregister(c))
    /\ \A c \in Clients : WF_vars(ReadPumpClose(c))

(***************************************************************************)
(* SpecBook: a new Book and the depth worker feeding it.                   *)
(***************************************************************************)
NextBook == DepthIngest

SpecBook == Init /\ [][NextBook]_vars

(***************************************************************************)
(* SpecOI: a new oi.Engine and the poller feeding it.                      *)
(***************************************************************************)
NextOI == OIPoll

SpecOI == Init /\ [][NextOI]_vars

(***************************************************************************)
(* SpecEngine: a new Engine over a Book and an oi.Engine that nobody       *)
(* updates (zero Pressure, zero State), processing trades.                 *)
(***************************************************************************)
NextEngine ==
    \/ EngineTakeTrade
    \/ EngineProcessTrade

SpecEngine == Init /\ [][NextEngine]_vars

(***************************************************************************)
(* SpecMix: the three writers side by side: the engine goroutine in        *)
(* ProcessTrade, the depth worker in UpdateDepth and the OI poller in      *)
(* Update, interleaved at their atomic loads and stores.  The oi.Engine    *)
(* has been polled OIRingLen times and the Book updated once already, so   *)
(* the 1 m delta and the pressure are live.                                *)
(***************************************************************************)
InitMix ==
    /\ InitPipeline
    /\ book = WarmBook
    /\ depthUpdates = 1
    /\ steadyBid = TRUE
    /\ pressLog = <<WarmBook.pressure>>
    /\ oiEng = WarmEngine(OIRingLen)
    /\ oiLog = WarmLog(OIRingLen)
    /\ InitTradeEngine
    /\ InitLife

NextMix ==
    \/ MixTakeTrade
    \/ EngineProcessTrade
    \/ MixDepthIngest
    \/ MixOIPoll

SpecMix == InitMix /\ [][NextMix]_vars

(***************************************************************************)
(* Properties                                                              *)
(***************************************************************************)
\* ids of the snapshot frames of a frame sequence
SnapIds(frames) ==
    {frames[i].snap.id : i \in {j \in DOMAIN frames : frames[j].kind = "snapshot"}}

\* registration with the hub has completed and the hub has not yet run the
\* unregister case for c
Registered(c) == spc[c] = "live" /\ rpc[c] \in {"read", "unreg"}

\* the frames an observer has been sent: written to its connection or queued
Delivered(c) == conn[c] \o send[c]

\* C1: no engine snapshot is delivered to an observer more than once; one that
\* was streamed as history is never forwarded to it again as a live frame.
NoSnapshotDeliveredTwice ==
    \A c \in Clients :
      \A i, j \in DOMAIN conn[c] :
        (/\ i < j
         /\ conn[c][i].kind = "snapshot"
         /\ conn[c][j].kind = "snapshot")
        => conn[c][i].snap.id # conn[c][j].snap.id

\* C2: with k >= 1 snapshots in the ring when serveWs reads it, the observer
\* gets the header 0xCE k (4 big-endian bytes), then exactly the k snapshots of
\* the ring oldest first, and only after them live frames; an observer that
\* reaches registration has been sent all k + 1 of them.
HydrationFraming ==
    \A c \in Clients :
      LET k     == Min(histAt[c], bufferSize)
          ring  == LastN(SubSeq(added, 1, histAt[c]), k)
          n     == Len(conn[c])
          bytes == conn[c][1].bytes
      IN  (spc[c] \in {"failed", "register", "live"} /\ k >= 1) =>
            /\ n >= 1 =>
                 /\ conn[c][1].kind = "header"
                 /\ Len(bytes) = 5
                 /\ bytes[1] = 206
                 /\ \A b \in 2..5 : bytes[b] \in 0..255
                 /\ bytes[2] * 16777216 + bytes[3] * 65536 + bytes[4] * 256 + bytes[5] = k
            /\ \A i \in 2..n :
                 /\ conn[c][i].kind = "snapshot"
                 /\ i <= k + 1 => conn[c][i].snap = ring[i - 1]
                 /\ i > k + 1 => spc[c] = "live"
            /\ spc[c] \in {"register", "live"} => n >= k + 1
            /\ spc[c] = "failed" => n < k + 1

\* C2 witness: an observer hydrated from a full ring has been written its
\* header, its bufferSize history frames and a newer live frame behind them.
HydratedThenLive ==
    \E c \in Clients :
      /\ histAt[c] >= bufferSize
      /\ Len(conn[c]) > bufferSize + 1
      /\ conn[c][bufferSize + 2].snap.id > histAt[c]

\* C3: the first frame on every observer connection is a count header, also
\* when the ring is empty; a snapshot frame is never first.
FirstFrameIsHeader ==
    \A c \in Clients : conn[c] # << >> => conn[c][1].kind = "header"

\* C4: while an observer is registered, every snapshot the hub takes from the
\* live channel is enqueued for it, unless its queue is full at that moment,
\* and then only that frame is lost (the queue is left as it was).
LiveFanOutComplete ==
    [][Len(snapshotCh'.buf) < Len(snapshotCh.buf) =>
         \A c \in Clients :
           Registered(c) =>
             IF Len(send[c]) < SendCap
             THEN send'[c] = Append(send[c], SnapFrame(Head(snapshotCh.buf)))
             ELSE send'[c] = send[c]]_vars

\* C4 witness: a registered observer whose queue holds a live frame and for
\* which a later frame was dropped on a full queue.
LiveFrameQueuedAndOneDropped ==
    \E c \in Clients :
      /\ Registered(c)
      /\ send[c] # << >>
      /\ \E d \in dropped[c] : d > send[c][1].snap.id

\* C5: after n Add calls on a ring of capacity N >= 1, Size() = min(n, N) <= N
\* and GetAll() is exactly the last min(n, N) added snapshots, oldest first,
\* without duplicates or gaps; Add on a full ring overwrites the oldest.
RingHoldsLastN ==
    LET n   == Len(added)
        out == GetAll(rb)
    IN  /\ rb.capacity >= 1
        /\ Size(rb) = Min(n, rb.capacity)
        /\ Size(rb) <= rb.capacity
        /\ Len(out) = Size(rb)
        /\ \A i \in 1..Len(out) : out[i] = added[n - Len(out) + i]
        /\ \A i, j \in 1..Len(out) : i < j => out[i].id + (j - i) = out[j].id

\* C5 witness: a ring that has wrapped more than once around.
RingWrapped == rb.full /\ Len(added) > rb.capacity + 1 /\ rb.capacity >= 2

\* C6: no two snapshots held in the ring have the same candle_1s.time.
RingOnePerSecond ==
    LET out == GetAll(rb)
    IN  \A i, j \in 1..Len(out) :
          i < j => out[i].Candle1sTime # out[j].Candle1sTime

\* C7: the engine worker never waits for a consumer: at each position of its
\* loop body its next step can be taken, whatever the state of the snapshot
\* channel, the logger channel and the observers; with the snapshot channel
\* full the offer drops the snapshot, with the logger channel full Log drops
\* the row, and the worker is back at its receive after the log step.
EngineNeverBlocks ==
    /\ (epc = "recv" /\ subscribers[1].buf # << >>) => ENABLED EngineRecv
    /\ epc = "offer" =>
         /\ ENABLED EngineOffer
         /\ ~HasRoom(snapshotCh) =>
              ENABLED (EngineOffer /\ snapshotCh' = snapshotCh /\ epc' = "log")
    /\ epc = "log" =>
         /\ ENABLED (EngineLog /\ epc' = "recv")
         /\ ~HasRoom(logCh) => ENABLED (EngineLog /\ logCh' = logCh /\ epc' = "recv")

\* C7 witness: the engine is about to offer a snapshot while the snapshot
\* channel and the logger channel are full and the registered observer's queue
\* is full.
EngineOffersWhileAllFull ==
    /\ epc = "offer"
    /\ ~HasRoom(snapshotCh)
    /\ ~HasRoom(logCh)
    /\ hubClients # {}
    /\ \A c \in hubClients : Len(send[c]) >= SendCap

\* the trades subscriber i has been handed, received or still queued
Handed(i) == received[i] \o subscribers[i].buf

\* C8: Publish never blocks; each subscriber gets the trade if its queue has
\* room and loses it otherwise, independently of the other subscribers; what a
\* subscriber is handed is an order-preserving subsequence of the published
\* trades.
PublishNeverBlocks ==
    /\ [](Len(published) < MaxTrades => ENABLED IngestPublish)
    /\ [](\A i \in DOMAIN subscribers :
            \A k \in 1..Len(Handed(i)) :
              /\ Handed(i)[k].ID \in 1..Len(published)
              /\ Handed(i)[k] = published[Handed(i)[k].ID]
              /\ k > 1 => Handed(i)[k - 1].ID < Handed(i)[k].ID)
    /\ [][Len(published') > Len(published) =>
            \A i \in DOMAIN subscribers :
              subscribers'[i].buf =
                IF Len(subscribers[i].buf) < subscribers[i].cap
                THEN Append(subscribers[i].buf, published'[Len(published')])
                ELSE subscribers[i].buf]_vars

\* C8 witness: the first subscriber, full, lost a trade that the second
\* subscriber was handed, and was handed a later trade itself.
FullSubscriberLostTradeAlone ==
    /\ Len(subscribers) = 2
    /\ \E n \in 1..Len(published) :
         /\ \E k \in 1..Len(Handed(2)) : Handed(2)[k].ID = n
         /\ \A k \in 1..Len(Handed(1)) : Handed(1)[k].ID # n
         /\ \E k \in 1..Len(Handed(1)) : Handed(1)[k].ID < n
         /\ \E k \in 1..Len(Handed(1)) : Handed(1)[k].ID > n

\* C9: with an observer's queue full at fan-out the hub still takes the
\* snapshot (it does not block), that observer keeps its queue and stays
\* registered, and every other registered observer with room gets the frame.
SlowObserverLosesFrameAlone ==
    snapshotCh.buf # << >> =>
      /\ ENABLED HubBroadcast
      /\ \A c \in hubClients :
           Len(send[c]) >= SendCap =>
             ENABLED (/\ HubBroadcast
                      /\ hubClients' = hubClients
                      /\ sendClosed' = sendClosed
                      /\ send'[c] = send[c]
                      /\ \A d \in hubClients \ {c} :
                           Len(send[d]) < SendCap =>
                             send'[d] = Append(send[d], SnapFrame(Head(snapshotCh.buf))))

\* C9 witness: a frame was dropped for one registered observer and delivered
\* to the other, and the first, still registered, was sent a later frame.
DroppedThenServed ==
    \E c \in hubClients :
      \E n \in dropped[c] :
        /\ \E d \in Clients \ {c} : n \in SnapIds(Delivered(d))
        /\ \E m \in SnapIds(Delivered(c)) : m > n

\* C10: an observer whose read side errors is eventually unregistered: it is
\* removed from the client set, its queue is closed and its connection is
\* closed; nothing is enqueued for it once its queue is closed.
ReadErrorUnregisters ==
    /\ \A c \in Clients :
         (rpc[c] = "unreg") ~> (c \notin hubClients /\ sendClosed[c] /\ connClosed[c])
    /\ [][\A c \in Clients :
            sendClosed[c] =>
              /\ sendClosed'[c]
              /\ c \notin hubClients'
              /\ send'[c] = send[c] \/ send'[c] = Tail(send[c])]_vars

\* C10 witness: an observer that was registered and sent a live frame has been
\* unregistered after a read error, with queue and connection closed, while a
\* snapshot waits in the live channel.
UnregisteredAfterReadError ==
    \E c \in Clients :
      /\ rpc[c] = "done"
      /\ c \notin hubClients
      /\ sendClosed[c]
      /\ connClosed[c]
      /\ \E m \in SnapIds(conn[c]) : m > histAt[c]
      /\ snapshotCh.buf # << >>

\* the frames an observer was sent after its history: the live frames
LiveFrames(c) ==
    LET h == Len(HistoryFrames(snapshots[c]))
        d == Delivered(c)
    IN  IF spc[c] = "live" THEN SubSeq(d, h + 1, Len(d)) ELSE << >>

\* snaps is a subsequence of the snapshots the engine emitted, in their order
\* (trade ids grow along added, so growing ids mean growing positions)
InEmissionOrder(snaps) ==
    /\ \A i \in DOMAIN snaps : \E j \in DOMAIN added : added[j] = snaps[i]
    /\ \A i, j \in DOMAIN snaps : i < j => snaps[i].id < snaps[j].id

SortedSide(side, n, dir) ==
    \A i \in 1..(n - 1) : dir * side[i].Price < dir * side[i + 1].Price

\* C14: every Pressure published for a depth update whose bids are sorted
\* descending and asks ascending has spread = best_ask - best_bid >= 0.
SpreadNonNegative ==
    (/\ SortedSide(book.Bids, book.BidN, -1)
     /\ SortedSide(book.Asks, book.AskN, 1))
    => /\ book.pressure.Spread = book.pressure.BestAsk - book.pressure.BestBid
       /\ book.pressure.Spread >= 0

\* C14 as amended: every published Pressure has spread = best_ask - best_bid,
\* best_bid and best_ask being the first levels of the update (0 for an empty
\* side); the spread is negative exactly when the best bid is above the best
\* ask, which sorted sides do not exclude.
SpreadIsAskMinusBid ==
    /\ book.pressure.Spread = book.pressure.BestAsk - book.pressure.BestBid
    /\ (book.BidN > 0 /\ book.AskN > 0) =>
         /\ book.pressure.BestBid = book.Bids[1].Price
         /\ book.pressure.BestAsk = book.Asks[1].Price
    /\ (book.BidN = 0 \/ book.AskN = 0) =>
         book.pressure.BestBid = 0 /\ book.pressure.BestAsk = 0
    /\ book.pressure.Spread < 0 <=> book.pressure.BestBid > book.pressure.BestAsk

\* C14 witness: a Pressure published for a crossed book with sorted sides
CrossedBookPublished ==
    /\ depthUpdates > 0
    /\ SortedSide(book.Bids, book.BidN, -1)
    /\ SortedSide(book.Asks, book.AskN, 1)
    /\ book.pressure.BestBid > book.pressure.BestAsk
    /\ book.pressure.BestAsk > 0

\* C15: an UpdateDepth call with an empty bid list or an empty ask list
\* publishes the all-zero Pressure, whatever earlier updates published.
EmptySidePublishesZero ==
    (depthUpdates > 0 /\ (book.BidN = 0 \/ book.AskN = 0)) =>
        /\ book.pressure = ZeroPressure
        /\ book.pressure.Score = 0
        /\ NSign(book.pressure.BidVol) = 0 /\ NSign(book.pressure.AskVol) = 0
        /\ FEq(book.pressure.Imbalance, FInt(0))
        /\ FEq(book.pressure.Absorb, FInt(0))

\* C15 witness: the zero Pressure published for a one-sided update that
\* follows updates with both sides present and a stable best bid
ZeroAfterNonZero ==
    /\ book.AskN = 0
    /\ NSign(book.prevBidVol) > 0
    /\ book.bidStableCount > 0
    /\ book.pressure = ZeroPressure

\* the first update of a Book, with bids totalling 100 and one ask of 1e-9
FirstUpdateSaturated ==
    /\ depthUpdates = 1
    /\ book.AskN = 1
    /\ book.pressure.BidVol = NInt(100)
    /\ book.pressure.AskVol = Eps

\* C16: on a first depth update with bids totalling 100 and a single ask level
\* of quantity 1e-9 the published score is +50.
SaturatedScoreIs50 == FirstUpdateSaturated => book.pressure.Score = 50

\* C16 as amended: on that update the imbalance is just below 1, the
\* liquidity-velocity and absorption terms are 0, raw = 50 * imbalance is just
\* below 50 and the conversion to int drops the fraction: the score is +49.
SaturatedScoreIs49 ==
    FirstUpdateSaturated =>
        /\ book.pressure.Score = 49
        /\ FLt(book.pressure.Imbalance, FInt(1))
        /\ FLt(FInt(49), FScale(50, book.pressure.Imbalance))
        /\ NSign(book.pressure.LiqVel) = 0
        /\ FEq(book.pressure.Absorb, FInt(0))

\* C16 witness: that first update has been published
SaturatedFirstUpdatePublished ==
    /\ FirstUpdateSaturated
    /\ book.pressure.BestBid = 30000
    /\ book.pressure.Score > 0

\* C17: after 11 or more consecutive updates of a new Book that all have the
\* same best bid and a best ask that differs from the one before, the bid
\* stability is 1.0 and the ask stability 0: absorb = +1.0, which is +20 of
\* the score.  (After n such updates the bid counter is n - 1.)
SteadyBidAbsorbs ==
    (steadyBid /\ depthUpdates >= 1) =>
        /\ book.bidStableCount = depthUpdates - 1
        /\ book.askStableCount = 0
        /\ depthUpdates >= 11 =>
             /\ FEq(book.pressure.Absorb, FInt(1))
             /\ FEq(FScale(20, book.pressure.Absorb), FInt(20))

\* C17 witness: the eleventh such update has been published
ElevenSteadyUpdates ==
    /\ steadyBid
    /\ depthUpdates = 11
    /\ FEq(book.pressure.Absorb, FInt(1))

\* the arguments of the Update call before call i (0, 0 before the first)
PrevOI(i) == IF i = 1 THEN 0 ELSE oiLog[i - 1].oi

PrevPrice(i) == IF i = 1 THEN 0 ELSE oiLog[i - 1].price

\* the classification as the contract words it
BehaviorRule(prevOI, prevPrice, oi, price) ==
    LET dOI == oi - prevOI
        dP  == price - prevPrice
    IN  IF prevOI = 0 \/ prevPrice = 0 THEN 0
        ELSE IF dP > 1 /\ 10000 * dOI > prevOI THEN 1
        ELSE IF dP < -1 /\ 10000 * dOI > prevOI THEN 2
        ELSE IF dP > 1 /\ 10000 * dOI < -prevOI THEN 3
        ELSE IF dP < -1 /\ 10000 * dOI < -prevOI THEN 4
        ELSE 0

\* C18: every OI update publishes the behavior given by the rule on the
\* changes against the previous update (LONG_BUILDUP 1, SHORT_BUILDUP 2,
\* SHORT_COVERING 3, LONG_LIQUIDATION 4, else NEUTRAL 0, also when the previous
\* oi or price is 0); from (100000, 30000) the updates (100100, 30100),
\* (100050, 30000), (100150, 29950), (100100, 30050) publish 1, 4, 2, 3.
BehaviorClassified ==
    /\ \A i \in DOMAIN oiLog :
         oiLog[i].behavior =
            BehaviorRule(PrevOI(i), PrevPrice(i), oiLog[i].oi, oiLog[i].price)
    /\ oiLog # << >> => oiEng.state.Behavior = oiLog[Len(oiLog)].behavior
    /\ \A i \in DOMAIN oiLog :
         (/\ i + 4 <= Len(oiLog)
          /\ [j \in 1..5 |-> <<oiLog[i + j - 1].oi, oiLog[i + j - 1].price>>] =
               << <<100000, 30000>>, <<100100, 30100>>, <<100050, 30000>>,
                  <<100150, 29950>>, <<100100, 30050>> >>)
         => [j \in 1..4 |-> oiLog[i + j].behavior] = <<1, 4, 2, 3>>

\* C18 witness: the four updates of the scenario have been published after
\* (100000, 30000), the last one as SHORT_COVERING
FourBehaviorsPublished ==
    /\ Len(oiLog) = 5
    /\ [j \in 1..5 |-> <<oiLog[j].oi, oiLog[j].price>>] =
         << <<100000, 30000>>, <<100100, 30100>>, <<100050, 30000>>,
            <<100150, 29950>>, <<100100, 30050>> >>
    /\ oiEng.state.Behavior = 3

\* ProcessTrade has returned for exactly one trade of a new engine, the
\* taker buy of 0.5 at 30000 of scenario S1, with zero Pressure and zero State
FirstTradeIsS1 ==
    /\ Len(ptLog) = 1
    /\ pt.pc = "idle"
    /\ ptLog[1].Price = 30000
    /\ ptLog[1].Quantity = Dec(5, 10)
    /\ ~ptLog[1].IsBuyer
    /\ ptOut.press = ZeroPressure
    /\ ptOut.oiState = ZeroState

\* C19: that first trade yields final_score = 13.5 exactly.
FirstScoreIs13Point5 ==
    FirstTradeIsS1 => ptOut.snap.FinalScore = Dec(135, 10)

\* C19 as amended: the sigma of the CVD velocity is updated to
\* 0.05*0.5 + 0.95*1.0 = 0.975 before cvd_vel = +0.5 is normalized, giving
\* 0.5/0.975 = 20/39, A = 0.6*20/39 = 4/13, raw = 0.45*(4/13)*100 = 180/13
\* (13.846...); the first smoothed value is the first raw value, so
\* final_score = 180/13.
FirstScoreIs180Over13 ==
    FirstTradeIsS1 =>
        /\ ptOut.input.CVD = Dec(5, 10)
        /\ ptOut.input.Delta1s = RInt(0)
        /\ ptOut.input.OBScore = 0
        /\ eng.scorer.cvdVel = Dec(5, 10)
        /\ eng.scorer.sigmaCVDVel = Dec(975, 1000)
        /\ eng.scorer.smoothed = RNorm(180, 13)
        /\ ptOut.snap.FinalScore = RNorm(180, 13)
        /\ RLt(Dec(13846, 1000), ptOut.snap.FinalScore)
        /\ RLt(ptOut.snap.FinalScore, Dec(13847, 1000))

\* C19 witness: the first trade of scenario S1 has been processed
FirstTradeScored ==
    /\ FirstTradeIsS1
    /\ eng.scorer.hasInit
    /\ RLt(RInt(0), ptOut.snap.FinalScore)

\* the seven candles of the engine: 1 s, 1 m, 5 m, 15 m, 1 h, 4 h, 1 d
Candles == <<eng.Candle1s, eng.Candle1m>> \o eng.HTF

\* C20: after the first trade ever processed by a new engine, whatever its
\* timestamp, CVD is the trade's signed delta and each of the seven candles is
\* freshly opened with open = high = low = close = the trade's price.
FirstTradeOpensAllCandles ==
    (Len(ptLog) = 1 /\ pt.pc = "idle") =>
        /\ eng.CVD = SignedDelta(ptLog[1])
        /\ \A i \in DOMAIN Candles :
             /\ Candles[i].Open = ptLog[1].Price
             /\ Candles[i].High = ptLog[1].Price
             /\ Candles[i].Low = ptLog[1].Price
             /\ Candles[i].Close = ptLog[1].Price

(***************************************************************************)
(* ProcessTrade beside UpdateDepth and Update (SpecMix)                    *)
(***************************************************************************)
\* every Pressure the Book has published: the zero value and the stores
PublishedPressures ==
    {ZeroPressure} \cup {pressLog[i] : i \in 1..Len(pressLog)}

\* every oi.State the Engine has published: the zero value and the stores
PublishedStates ==
    {ZeroState} \cup {oiLog[i].state : i \in 1..Len(oiLog)}

\* C12: within one ProcessTrade call the Pressure and the OIState are each
\* read once: the value held since the read is one whole published value,
\* the ob_score, oi_delta_long and behavior fed to the Scorer are those of
\* the emitted snapshot, and the snapshot's orderbook and oi projections are
\* projections of the values read, whatever UpdateDepth and Update stored
\* meanwhile.
ReadOnceConsistent ==
    /\ pt.pc \in {"oi", "score"} => pt.press \in PublishedPressures
    /\ pt.pc = "score" => pt.oiState \in PublishedStates
    /\ ptLog # << >> =>
         /\ ptOut.press \in PublishedPressures
         /\ ptOut.oiState \in PublishedStates
         /\ ptOut.snap.Orderbook = OrderbookSnapshot(ptOut.press)
         /\ ptOut.snap.OI = OISnapshot(ptOut.oiState)
         /\ ptOut.input.OBScore = ptOut.snap.Orderbook.Score
         /\ ptOut.input.OIDelta1m = RInt(ptOut.snap.OI.OIDelta1m)
         /\ ptOut.input.OIBehavior = ptOut.snap.OI.Behavior

\* a call has returned during which both the Book and the oi.Engine
\* published a new value after the call had read the old one
BothRepublishedDuringCall ==
    /\ ptLog # << >>
    /\ ptOut.press # ZeroPressure
    /\ ptOut.press.Score # ptOut.pressAtReturn.Score
    /\ ptOut.oiState.OIDelta1m # ptOut.stateAtReturn.OIDelta1m
    /\ ptOut.oiState.Behavior # ptOut.stateAtReturn.Behavior

\* C13: every published Pressure has imbalance and absorb in [-1, +1] and
\* score in [-100, +100], and every final_score the Scorer returned, and the
\* one carried in the snapshot, is in [-100, +100].
PressureInRange(p) ==
    /\ FLeq(FInt(-1), p.Imbalance) /\ FLeq(p.Imbalance, FInt(1))
    /\ FLeq(FInt(-1), p.Absorb) /\ FLeq(p.Absorb, FInt(1))
    /\ p.Score \in -100..100

FinalScoreInRange(x) == ~RLt(x, RInt(-100)) /\ ~RLt(RInt(100), x)

ScoresInRange ==
    /\ PressureInRange(book.pressure)
    /\ \A p \in PublishedPressures : PressureInRange(p)
    /\ FinalScoreInRange(eng.scorer.FinalScore)
    /\ ptLog # << >> => FinalScoreInRange(ptOut.snap.FinalScore)

\* a trade of quantity 5 was scored against a live book and a live open
\* interest state, and the Book has published a Pressure with absorb > 0
LargeTradeScoredOnLiveBook ==
    /\ ptLog # << >>
    /\ ptLog[1].Quantity = RInt(5)
    /\ RLt(ptOut.snap.FinalScore, RInt(0))
    /\ ptOut.press.Score # 0
    /\ ptOut.oiState.OIDelta1m # 0
    /\ FLt(FInt(0), book.pressure.Absorb)
    /\ book.pressure.Score # 0

(***************************************************************************)
(* Candles and CVD (SpecEngine)                                            *)
(***************************************************************************)
\* the bucket durations D of the seven candles, in seconds
CandleSeconds == <<1, 60>> \o [i \in 1..NumHTF |-> htfDefs[i].Seconds]

\* the seven candles of the last emitted snapshot
SnapCandles == <<ptOut.snap.Candle1s, ptOut.snap.Candle1m>> \o ptOut.snap.HTF

WellFormedCandle(c, seconds) ==
    /\ c.Low <= c.Open /\ c.Open <= c.High
    /\ c.Low <= c.Close /\ c.Close <= c.High
    /\ c.Time % seconds = 0

\* C21: after any sequence of trades every candle of every timeframe, in the
\* engine and in the emitted snapshot, has low <= open <= high and
\* low <= close <= high, and a time that is a multiple of its bucket duration.
CandlesWellFormed ==
    /\ \A i \in DOMAIN Candles : WellFormedCandle(Candles[i], CandleSeconds[i])
    /\ ptLog # << >> =>
         \A i \in DOMAIN SnapCandles :
            WellFormedCandle(SnapCandles[i], CandleSeconds[i])

\* C21 witness: three trades fell into one 1 s bucket, the second above and
\* the third below the opening price.
CandleWithBothWicks ==
    /\ Len(ptLog) = 3
    /\ pt.pc = "idle"
    /\ eng.Candle1s.Time > 0
    /\ eng.Candle1s.Low < eng.Candle1s.Open
    /\ eng.Candle1s.Open < eng.Candle1s.High
    /\ eng.Candle1s.Close = eng.Candle1s.Low

\* C22: after a single buyer-taker trade of quantity 0.5 at price 30000 on a
\* blank engine, candle_1s has OHLC all 30000, buy_vol = 0.5, sell_vol = 0
\* and delta = +0.5: the trade that opens a bucket is counted in it.
OpeningTradeCounted ==
    FirstTradeIsS1 =>
        /\ eng.Candle1s.Open = 30000 /\ eng.Candle1s.High = 30000
        /\ eng.Candle1s.Low = 30000 /\ eng.Candle1s.Close = 30000
        /\ eng.Candle1s.BuyVol = Dec(5, 10)
        /\ eng.Candle1s.SellVol = RInt(0)
        /\ eng.Candle1s.Delta = Dec(5, 10)

\* the second of the trade ProcessTrade was called with at call i
TradeSec(i) == ptLog[i].Time \div 1000

\* the last two calls were for trades at seconds T+59 and T+60, and the
\* second call has returned
LastTwoAt59And60(T) ==
    /\ Len(ptLog) >= 2
    /\ pt.pc = "idle"
    /\ TradeSec(Len(ptLog) - 1) = T + 59
    /\ TradeSec(Len(ptLog)) = T + 60

\* trade seconds T the scenario is checked for
RolloverSeconds == 0..120

\* C23: for any trade second T with 1 m bucket T1 = T - (T mod 60), after a
\* trade at T+59 followed by a trade at T+60 candle_1m has time T1+60 and the
\* second trade's price as its open.
RolloverResetsAnyT ==
    \A T \in RolloverSeconds :
        LastTwoAt59And60(T) =>
            /\ eng.Candle1m.Time = (T - (T % 60)) + 60
            /\ eng.Candle1m.Open = ptLog[Len(ptLog)].Price

\* C23 as amended: candle_1m has time T1+60 in every case; when T is a
\* multiple of 60 the two trades lie in different 1 m buckets and the second
\* trade has opened the new one: open = high = low = close = its price and
\* the volumes and the delta are 0.
RolloverResetsAlignedT ==
    \A T \in RolloverSeconds :
        LastTwoAt59And60(T) =>
            /\ eng.Candle1m.Time = (T - (T % 60)) + 60
            /\ T % 60 = 0 =>
                 /\ eng.Candle1m.Open = ptLog[Len(ptLog)].Price
                 /\ eng.Candle1m.High = ptLog[Len(ptLog)].Price
                 /\ eng.Candle1m.Low = ptLog[Len(ptLog)].Price
                 /\ eng.Candle1m.Close = ptLog[Len(ptLog)].Price
                 /\ eng.Candle1m.BuyVol = RInt(0)
                 /\ eng.Candle1m.SellVol = RInt(0)
                 /\ eng.Candle1m.Delta = RInt(0)
                 /\ ptOut.snap.Candle1m.Time = T + 60
                 /\ ptOut.snap.Candle1m.Open = ptLog[Len(ptLog)].Price

\* C23 witness: a trade at second 59 and then one at second 60 at another
\* price have been processed.
RolledOverAtSecond60 ==
    /\ LastTwoAt59And60(0)
    /\ ptLog[Len(ptLog)].Price # ptLog[Len(ptLog) - 1].Price
    /\ eng.Candle1m.Time = 60

\* -quantity when is_maker_buyer is true, +quantity otherwise, summed over the
\* first n processed trades
RECURSIVE SumSigned(_)
SumSigned(n) ==
    IF n = 0 THEN RInt(0)
    ELSE CHOOSE r \in {RAdd(s, IF ptLog[n].IsBuyer THEN RNeg(ptLog[n].Quantity)
                                ELSE ptLog[n].Quantity) :
                         s \in {SumSigned(n - 1)}} : TRUE

\* C24: the engine's CVD is the sum of the signed deltas of the processed
\* trades (with the trade of a running call already added), and the cvd of
\* the emitted snapshot includes the trade that produced it.
CVDIsRunningSum ==
    /\ pt.pc = "idle" => eng.CVD = SumSigned(Len(ptLog))
    /\ pt.pc # "idle" =>
         eng.CVD = RAdd(SumSigned(Len(ptLog)),
                        IF pt.t.IsBuyer THEN RNeg(pt.t.Quantity) ELSE pt.t.Quantity)
    /\ ptLog # << >> => ptOut.snap.CVD = SumSigned(Len(ptLog))

\* C24 witness: three trades, takers on both sides, have been processed and
\* the CVD is negative.
CVDAfterBothSides ==
    /\ Len(ptLog) = 3
    /\ pt.pc = "idle"
    /\ \E i, j \in 1..3 : ptLog[i].IsBuyer /\ ~ptLog[j].IsBuyer
    /\ RLt(eng.CVD, RInt(0))
    /\ ptOut.snap.CVD = eng.CVD

(***************************************************************************)
(* CSV rows of the engine goroutine (Spec)                                 *)
(***************************************************************************)
\* the rows Logger.Log accepted so far: those written and those still queued
AcceptedRows == logged \o logCh.buf

\* C25: for any sequence of trades, whatever the order of their timestamps,
\* the engine worker submits at most one CSV row per candle_1s.time value
\* (row.Timestamp is snap.Time, so its candle_1s.time is Timestamp / 1000).
OneRowPerCandleSecond ==
    \A i, j \in DOMAIN AcceptedRows :
        i < j => AcceptedRows[i].Timestamp \div 1000 # AcceptedRows[j].Timestamp \div 1000

(***************************************************************************)
(* The ingest workers (part_002) and their reconnect loops.  Delays are    *)
(* in seconds.  The dial and the read of a connection may succeed or fail  *)
(* at any attempt; the failures of one worker are bounded by MaxFeedErrs   *)
(* and the messages it reads by MaxFeedMsgs.                               *)
(***************************************************************************)
\* "delay *= 2; if delay > maxReconnectDelay { delay = maxReconnectDelay }"
NextDelay(w, delay) == Min(delay * 2, FeedCap(w))

otherThanFeed ==
    <<oip, ctx, mainpc, flushed, cancelRows, running, ringVars, busVars, engVars, hubVars,
      bookVars, oiVars, tradeVars, codec>>

\* loop: "select { case <-ctx.Done(): return; default: }" with ctx live,
\* then connectAndConsume starts to dial
LoopEnter(w) ==
    /\ feed[w].pc = "top"
    /\ ctx = "live"
    /\ feed' = [feed EXCEPT ![w].pc = "dial"]
    /\ UNCHANGED otherThanFeed

\* loop: the same select with ctx done
LoopExit(w) ==
    /\ feed[w].pc = "top"
    /\ ctx = "done"
    /\ feed' = [feed EXCEPT ![w].pc = "exited"]
    /\ running' = running \ {w}
    /\ UNCHANGED <<oip, ctx, mainpc, flushed, cancelRows, ringVars, busVars, engVars, hubVars,
                   bookVars, oiVars, tradeVars, codec>>

\* connectAndConsume: Dial fails, "return err"; loop logs it and waits in
\* "select { case <-ctx.Done(): return; case <-time.After(delay): }"
DialError(w) ==
    /\ feed[w].pc = "dial"
    /\ feed[w].errs < MaxFeedErrs
    /\ feed' = [feed EXCEPT ![w].pc = "sleep", ![w].errs = @ + 1,
                            ![w].served = FALSE]
    /\ UNCHANGED otherThanFeed

\* connectAndConsume: Dial succeeds
DialOK(w) ==
    /\ feed[w].pc = "dial"
    /\ feed' = [feed EXCEPT ![w].pc = "conn", ![w].served = FALSE]
    /\ UNCHANGED otherThanFeed

\* connectAndConsume: "select { case <-ctx.Done(): return nil; default: }"
\* with ctx live, then ReadJSON blocks
ConsumeEnter(w) ==
    /\ feed[w].pc = "conn"
    /\ ctx = "live"
    /\ feed' = [feed EXCEPT ![w].pc = "read"]
    /\ UNCHANGED otherThanFeed

\* connectAndConsume returns nil on cancellation; loop takes the else
\* branch, "delay = reconnectDelay", and goes round
ConsumeCancelled(w) ==
    /\ feed[w].pc = "conn"
    /\ ctx = "done"
    /\ feed' = [feed EXCEPT ![w].pc = "top", ![w].delay = FeedBase(w)]
    /\ UNCHANGED otherThanFeed

\* Ingester.connectAndConsume: ReadJSON returns a trade, i.bus.Publish(trade)
TradeMessage ==
    /\ feed["trade"].pc = "read"
    /\ Len(published) < MaxFeedMsgs
    /\ \E time \in TradeTimes :
         LET t == Trade(Len(published) + 1, time)
         IN  /\ subscribers' = PublishAll(subscribers, t)
             /\ published' = Append(published, t)
    /\ feed' = [feed EXCEPT !["trade"].pc = "conn", !["trade"].served = TRUE]
    /\ UNCHANGED <<received, oip, ctx, mainpc, flushed, cancelRows, running, ringVars, engVars,
                   hubVars, bookVars, oiVars, tradeVars, codec>>

\* DepthIngester.connectAndConsume: ReadJSON returns an event,
\* d.book.UpdateDepth(bids, asks)
DepthMessage ==
    /\ feed["depth"].pc = "read"
    /\ depthUpdates < MaxFeedMsgs
    /\ \E ev \in MixDepthEvents : UpdateDepth(ParseLevels(ev.b), ParseLevels(ev.a))
    /\ feed' = [feed EXCEPT !["depth"].pc = "conn", !["depth"].served = TRUE]
    /\ UNCHANGED <<pressLog, oip, ctx, mainpc, flushed, cancelRows, running, ringVars, busVars,
                   engVars, hubVars, oiVars, tradeVars, codec>>

\* connectAndConsume: ReadJSON fails (the connection dropped), "return err";
\* loop logs it and waits as after a failed dial
ReadError(w) ==
    /\ feed[w].pc = "read"
    /\ feed[w].errs < MaxFeedErrs
    /\ feed' = [feed EXCEPT ![w].pc = "sleep", ![w].errs = @ + 1]
    /\ UNCHANGED otherThanFeed

\* loop: time.After(delay) fires, then the delay is doubled and capped
BackoffElapsed(w) ==
    /\ feed[w].pc = "sleep"
    /\ feed' = [feed EXCEPT ![w].pc = "top",
                            ![w].delay = NextDelay(w, feed[w].delay)]
    /\ UNCHANGED otherThanFeed

\* loop: ctx.Done() is taken while waiting
BackoffCancelled(w) ==
    /\ feed[w].pc = "sleep"
    /\ ctx = "done"
    /\ feed' = [feed EXCEPT ![w].pc = "exited"]
    /\ running' = running \ {w}
    /\ UNCHANGED <<oip, ctx, mainpc, flushed, cancelRows, ringVars, busVars, engVars, hubVars,
                   bookVars, oiVars, tradeVars, codec>>

\* what a poll can come to: a response that decodes and parses, or one of
\* the four early returns of OIPoller.poll
PollFailures == {"request", "status", "decode", "parse"}

\* OIPoller.poll with "oiVal, err := strconv.ParseFloat(...)" unchecked:
\* an unparsable body reaches Update as 0
OIPollerPollZeroOnParse ==
    /\ oip.pc = "poll"
    /\ \/ /\ \E oi \in MixOIValues : Update(oi, GetPrice(eng))
          /\ oip' = [pc |-> "wait", polls |-> oip.polls + 1, last |-> "ok"]
       \/ /\ \E f \in PollFailures \ {"parse"} :
               oip' = [pc |-> "wait", polls |-> oip.polls + 1, last |-> f]
          /\ UNCHANGED oiVars
       \/ /\ Update(0, GetPrice(eng))
          /\ oip' = [pc |-> "wait", polls |-> oip.polls + 1, last |-> "parse"]
    /\ UNCHANGED <<feed, ctx, mainpc, flushed, cancelRows, running, ringVars, busVars, engVars,
                   hubVars, bookVars, tradeVars, codec>>

\* OIPoller.poll: every failure returns before p.engine.Update
OIPollerPoll ==
    /\ oip.pc = "poll"
    /\ \/ /\ \E oi \in MixOIValues : Update(oi, GetPrice(eng))
          /\ oip' = [pc |-> "wait", polls |-> oip.polls + 1, last |-> "ok"]
       \/ /\ \E f \in PollFailures :
               oip' = [pc |-> "wait", polls |-> oip.polls + 1, last |-> f]
          /\ UNCHANGED oiVars
    /\ UNCHANGED <<feed, ctx, mainpc, flushed, cancelRows, running, ringVars, busVars, engVars,
                   hubVars, bookVars, tradeVars, codec>>

\* OIPoller.loop: "case <-ticker.C: p.poll()"
OITick ==
    /\ oip.pc = "wait"
    /\ oip.polls < MaxPolls
    /\ oip' = [oip EXCEPT !.pc = "poll"]
    /\ UNCHANGED <<feed, ctx, mainpc, flushed, cancelRows, running, ringVars, busVars, engVars,
                   hubVars, bookVars, oiVars, tradeVars, codec>>

\* OIPoller.loop: "case <-ctx.Done(): return"
OIExit ==
    /\ oip.pc = "wait"
    /\ ctx = "done"
    /\ oip' = [oip EXCEPT !.pc = "exited"]
    /\ running' = running \ {"oi"}
    /\ UNCHANGED <<feed, ctx, mainpc, flushed, cancelRows, ringVars, busVars, engVars,
                   hubVars, bookVars, oiVars, tradeVars, codec>>

(***************************************************************************)
(* SpecIngest: the two websocket ingest workers while the context is live. *)
(***************************************************************************)
NextIngest ==
    \/ \E w \in Feeds : LoopEnter(w)
    \/ \E w \in Feeds : DialError(w)
    \/ \E w \in Feeds : DialOK(w)
    \/ \E w \in Feeds : ConsumeEnter(w)
    \/ TradeMessage
    \/ DepthMessage
    \/ \E w \in Feeds : ReadError(w)
    \/ \E w \in Feeds : BackoffElapsed(w)

SpecIngest == Init /\ [][NextIngest]_vars

(***************************************************************************)
(* SpecOutage: the two workers that publish state for readers, the depth   *)
(* ingest worker and the OI poller, while the context is live.             *)
(***************************************************************************)
NextOutage ==
    \/ LoopEnter("depth")
    \/ DialError("depth")
    \/ DialOK("depth")
    \/ ConsumeEnter("depth")
    \/ DepthMessage
    \/ ReadError("depth")
    \/ BackoffElapsed("depth")
    \/ OIPollerPoll
    \/ OITick

SpecOutage == Init /\ [][NextOutage]_vars

\* C26: a worker that waits to reconnect after a connection that was
\* established, consumed messages and then dropped waits the starting delay
BackoffAfterServedIsBase ==
    \A w \in Feeds :
        (feed[w].pc = "sleep" /\ feed[w].served) => feed[w].delay = FeedBase(w)

\* the depth feed is not connected: before a dial, dialling, or backing off
DepthDown == feed["depth"].pc \in {"top", "dial", "sleep"}

\* C29: a poll that fails leaves the OIState of GetState as it was, and a
\* step taken while the depth feed is down, or in which its read fails,
\* leaves the Pressure of GetPressure as it was
FailedIngestKeepsPublished ==
    [][ /\ (oip.pc = "poll" /\ oip'.pc = "wait" /\ oip'.last \in PollFailures)
            => GetState(oiEng') = GetState(oiEng)
        /\ (DepthDown \/ (feed["depth"].pc = "read" /\ feed'["depth"].pc = "sleep"))
            => GetPressure(book') = GetPressure(book) ]_vars

\* a poll has failed after an OIState was published, and the depth feed
\* waits to reconnect after a connection that published a Pressure
FailedAfterPublished ==
    /\ oip.last \in PollFailures
    /\ GetState(oiEng) # ZeroState
    /\ feed["depth"].pc = "sleep"
    /\ feed["depth"].served
    /\ GetPressure(book) # GetPressure(NewBook)

(***************************************************************************)
(* SpecShutdown: every goroutine main starts, the signal, cancel() and the *)
(* return of main, after which the process and all its goroutines are      *)
(* gone.  No observer connects.  The engine goroutine ranges over tradeCh, *)
(* Hub.run selects on register, unregister and input, and Logger.run       *)
(* selects on l.ch and its ticker; none of them receives ctx, the Bus has  *)
(* no close and the Logger has no Close, so tradeCh and l.ch stay open.    *)
(* A row written by Logger.run is in the bufio.Writer (1 MB) until a tick  *)
(* flushes it.  The specification starts after a bad spell of the network: *)
(* every dial of the trade worker so far has failed, MaxFeedErrs times,    *)
(* every dial of the depth worker but the last allowed one, and every poll *)
(* but the last allowed one.                                               *)
(***************************************************************************)
Alive == mainpc # "returned"

\* the delay of worker w after n failed dials in a row
RECURSIVE DelayAfter(_, _)
DelayAfter(w, n) ==
    IF n = 0 THEN FeedBase(w) ELSE NextDelay(w, DelayAfter(w, n - 1))

\* worker w back at the top of its loop after n failed dials
FeedAfter(w, n) ==
    [pc |-> "top", delay |-> DelayAfter(w, n), errs |-> n, served |-> FALSE]

InitShutdown ==
    /\ InitPipeline
    /\ InitBookObj
    /\ oiEng = NewEngine
    /\ oiLog = << >>
    /\ InitTradeEngine
    /\ feed = [w \in Feeds |-> IF w = "trade" THEN FeedAfter(w, MaxFeedErrs)
                                ELSE FeedAfter(w, MaxFeedErrs - 1)]
    /\ oip = [pc |-> "wait", polls |-> MaxPolls - 1, last |-> "request"]
    /\ ctx = "live"
    /\ mainpc = "waiting"
    /\ flushed = 0
    /\ cancelRows = 0
    /\ running = Workers
    /\ codec = IdleCodec

\* main: "<-sigChan; log.Println(...); cancel()"
MainCancel ==
    /\ mainpc = "waiting"
    /\ ctx' = "done"
    /\ mainpc' = "cancelled"
    /\ cancelRows' = Len(logged) + Len(logCh.buf)
    /\ UNCHANGED <<feed, oip, flushed, running, ringVars, busVars, engVars,
                   hubVars, bookVars, oiVars, tradeVars, codec>>

\* main returns and the process exits
MainReturn ==
    /\ mainpc = "cancelled"
    /\ mainpc' = "returned"
    /\ UNCHANGED <<feed, oip, ctx, flushed, cancelRows, running, ringVars,
                   busVars, engVars, hubVars, bookVars, oiVars, tradeVars, codec>>

\* Logger.run: "case <-ticker.C: if writer != nil { writer.Flush() }"
LoggerFlush ==
    /\ flushed' = Len(logged)
    /\ UNCHANGED <<feed, oip, ctx, mainpc, cancelRows, running, ringVars,
                   busVars, engVars, hubVars, bookVars, oiVars, tradeVars, codec>>

FeedStep(w) ==
    \/ LoopEnter(w)
    \/ LoopExit(w)
    \/ ConsumeEnter(w)
    \/ ConsumeCancelled(w)
    \/ BackoffElapsed(w)
    \/ BackoffCancelled(w)

NextShutdown ==
    \/ Alive /\ \E w \in Feeds : LoopEnter(w)
    \/ Alive /\ \E w \in Feeds : LoopExit(w)
    \/ Alive /\ DialError("depth")
    \/ Alive /\ \E w \in Feeds : DialOK(w)
    \/ Alive /\ \E w \in Feeds : ConsumeEnter(w)
    \/ Alive /\ \E w \in Feeds : ConsumeCancelled(w)
    \/ Alive /\ TradeMessage
    \/ Alive /\ DepthMessage
    \/ Alive /\ ReadError("depth")
    \/ Alive /\ BackoffElapsed("depth")
    \/ Alive /\ BackoffCancelled("depth")
    \/ Alive /\ OIPollerPoll
    \/ Alive /\ OITick
    \/ Alive /\ OIExit
    \/ Alive /\ EngineRecv
    \/ Alive /\ EngineOffer
    \/ Alive /\ EngineLog
    \/ Alive /\ LoggerRun
    \/ Alive /\ LoggerFlush
    \/ Alive /\ HubBroadcast
    \/ MainCancel
    \/ MainReturn

SpecShutdown == InitShutdown /\ [][NextShutdown]_vars

\* every goroutine that can take a step of its own takes it: the loops of
\* the workers, the ticker of the Logger, the return of main.  Messages,
\* errors and the signal come from outside and are not forced.
FairShutdown ==
    /\ SpecShutdown
    /\ \A w \in Feeds : WF_vars(Alive /\ FeedStep(w))
    /\ WF_vars(Alive /\ (OIPollerPoll \/ OIExit))
    /\ WF_vars(Alive /\ (EngineRecv \/ EngineOffer \/ EngineLog))
    /\ WF_vars(Alive /\ (LoggerRun \/ LoggerFlush))
    /\ WF_vars(Alive /\ HubBroadcast)
    /\ WF_vars(MainReturn)

\* C27: once cancel() has run, every worker eventually leaves its loop
CancelUnwindsAll == (ctx = "done") ~> (running = {})

\* C28: when the process ends after cancel(), every row the Logger had
\* accepted when cancel() ran has been flushed to the file
AcceptedRowsFlushedAtExit == (mainpc = "returned") => (flushed >= cancelRows)

(***************************************************************************)
(* SpecRestart: main after a restart.  LoadFromCSV reads the rows the      *)
(* Logger of the previous run wrote, main adds the snapshots rebuilt from  *)
(* them to the ring, and then the pipeline runs and an observer connects.  *)
(* A trade of the previous run has the negative of its time_ms as its ID.  *)
(***************************************************************************)
MaxPriorRows == 3

\* time_ms of the trades the previous run logged
PriorTimes == {500, 1500}

\* fmt.Fprintf "%d" of a timestamp (csv.go line 168): its decimal digits
RECURSIVE FormatInt(_)
FormatInt(n) ==
    IF n < 10 THEN <<n>> ELSE Append(FormatInt(n \div 10), n % 10)

\* strconv.ParseInt(s, 10, 64) of a string of digits
RECURSIVE ParseInt(_)
ParseInt(ds) ==
    IF ds = << >> THEN 0
    ELSE ParseInt(SubSeq(ds, 1, Len(ds) - 1)) * 10 + ds[Len(ds)]

\* the CSV record Logger.run writes for a LogRow, the columns the loader reads
CsvRecord(row) == [timestamp |-> FormatInt(row.Timestamp), id |-> row.id]

\* the CSV files a previous run can have left: no file or no rows, or up to
\* MaxPriorRows rows
LogFiles ==
    UNION { [1..n -> { CsvRecord(BuildLogRow(ProcessTrade(Trade(-time, time)))) :
                         time \in PriorTimes }] : n \in 0..MaxPriorRows }

\* csvRowToSnapshot: "tsSec := ts / 1000", "Time: tsSec", Candle1s.Time: tsSec
csvRowToSnapshot(record) ==
    LET ts    == ParseInt(record.timestamp)
        tsSec == ts \div 1000
    IN  [id |-> record.id, Time |-> tsSec, Candle1sTime |-> tsSec]

\* LoadFromCSV: the last limit rows, converted, those with Time > 0 kept
LoadFromCSV(rows, limit) ==
    LET last  == IF Len(rows) > limit
                 THEN SubSeq(rows, Len(rows) - limit + 1, Len(rows)) ELSE rows
        snaps == [i \in 1..Len(last) |-> csvRowToSnapshot(last[i])]
        Kept(snap) == snap.Time > 0
    IN  SelectSeq(snaps, Kept)

\* "for _, snap := range csvSnapshots { snapBuffer.Add(snap) }"
RECURSIVE AddEach(_, _)
AddEach(r, snaps) ==
    IF snaps = << >> THEN r ELSE AddEach(RingAdd(r, Head(snaps)), Tail(snaps))

\* main.go lines 50-55
MainPreload ==
    /\ mainpc = "loading"
    /\ \E rows \in LogFiles :
         LET csvSnapshots == LoadFromCSV(rows, bufferSize)
         IN  /\ rb' = AddEach(rb, csvSnapshots)
             /\ added' = added \o csvSnapshots
    /\ mainpc' = "waiting"
    /\ UNCHANGED <<feed, oip, ctx, flushed, cancelRows, running, busVars,
                   engVars, hubVars, bookVars, oiVars, tradeVars, codec>>

Started == mainpc = "waiting"

InitRestart ==
    /\ InitPipeline
    /\ InitBookObj
    /\ oiEng = NewEngine
    /\ oiLog = << >>
    /\ InitTradeEngine
    /\ feed = [w \in Feeds |-> NewFeed(w)]
    /\ oip = NewPoller
    /\ ctx = "live"
    /\ mainpc = "loading"
    /\ flushed = 0
    /\ cancelRows = 0
    /\ running = {}
    /\ codec = IdleCodec

NextRestart ==
    \/ MainPreload
    \/ Started /\ IngestPublish
    \/ Started /\ EngineRecv
    \/ Started /\ EngineOffer
    \/ Started /\ EngineLog
    \/ Started /\ LoggerRun
    \/ Started /\ HubBroadcast
    \/ Started /\ \E c \in Clients : ServeWsHistory(c)
    \/ Started /\ \E c \in Clients : HubRegister(c)
    \/ Started /\ \E c \in Clients : WritePumpWrite(c)

SpecRestart == InitRestart /\ [][NextRestart]_vars

\* time_ms of the trade a snapshot was computed from
SourceTimeMs(id) == IF id < 0 THEN -id ELSE published[id].Time

\* the snapshots of the frames written to the connection of c
DeliveredSnaps(c) ==
    { conn[c][i].snap : i \in { j \in DOMAIN conn[c] : conn[c][j].kind = "snapshot" } }

HeldSnaps == { GetAll(rb)[i] : i \in DOMAIN GetAll(rb) }

\* C30: every snapshot in the ring or written to an observer has the
\* time_ms of its trade as its time field
SnapshotTimesInMs ==
    \A snap \in HeldSnaps \cup UNION { DeliveredSnaps(c) : c \in Clients } :
        snap.Time = SourceTimeMs(snap.id)

(***************************************************************************)
(* The wire format of a Snapshot (part_003, trade.go).  An int64 is        *)
(* I64(hi, lo), the value hi * 2^24 + lo with 0 <= lo < 2^24; a float64 is *)
(* F64(s, e, m1, m2, m3), its sign bit, its 11 exponent bits and its 52    *)
(* fraction bits as 20 + 16 + 16.  Score and Behavior are Go ints.         *)
(***************************************************************************)
I64(hi, lo) == [hi |-> hi, lo |-> lo]
F64(s, e, m1, m2, m3) == [s |-> s, e |-> e, m1 |-> m1, m2 |-> m2, m3 |-> m3]

\* int64(n) of a Go int n
I64Of(n) == I64(n \div 16777216, n % 16777216)

\* appendInt64 with the first test "v >= 0 && v <= 128"
appendInt64Wide(b, v) ==
    IF v.hi = 0 /\ v.lo <= 128 THEN Append(b, v.lo % 256)
    ELSE IF v.hi = -1 /\ v.lo >= 16777216 - 32 THEN Append(b, v.lo % 256)
    ELSE b \o <<211,
                IF v.hi < 0 THEN 255 ELSE 0,
                (v.hi \div 16777216) % 256,
                (v.hi \div 65536) % 256,
                (v.hi \div 256) % 256,
                v.hi % 256,
                (v.lo \div 65536) % 256,
                (v.lo \div 256) % 256,
                v.lo % 256>>

\* appendInt64: byte(v) and byte(v >> 8k) keep the low eight bits
appendInt64(b, v) ==
    IF v.hi = 0 /\ v.lo <= 127 THEN Append(b, v.lo % 256)
    ELSE IF v.hi = -1 /\ v.lo >= 16777216 - 32 THEN Append(b, v.lo % 256)
    ELSE b \o <<211,
                IF v.hi < 0 THEN 255 ELSE 0,
                (v.hi \div 16777216) % 256,
                (v.hi \div 65536) % 256,
                (v.hi \div 256) % 256,
                v.hi % 256,
                (v.lo \div 65536) % 256,
                (v.lo \div 256) % 256,
                v.lo % 256>>

\* math.Float64bits, as four 16-bit words, the most significant first
Float64bits(v) ==
    <<v.s * 32768 + v.e * 16 + v.m1 \div 65536, v.m1 % 65536, v.m2, v.m3>>

\* appendFloat64 with the eight bytes in the opposite order
appendFloat64LE(b, v) ==
    LET bits == Float64bits(v)
    IN  b \o <<203, bits[4] % 256, bits[4] \div 256, bits[3] % 256, bits[3] \div 256,
               bits[2] % 256, bits[2] \div 256, bits[1] % 256, bits[1] \div 256>>

appendFloat64(b, v) ==
    LET bits == Float64bits(v)
    IN  b \o <<203, bits[1] \div 256, bits[1] % 256, bits[2] \div 256, bits[2] % 256,
               bits[3] \div 256, bits[3] % 256, bits[4] \div 256, bits[4] % 256>>

appendCandleSnapshot(b, c) ==
    appendFloat64(appendFloat64(appendFloat64(appendFloat64(appendFloat64(
    appendFloat64(appendFloat64(appendFloat64(appendInt64(Append(b, 153),
        c.Time), c.Open), c.High), c.Low), c.Close), c.BuyVol), c.SellVol),
        c.Delta), c.AvgScore)

appendOrderbookSnapshot(b, o) ==
    appendInt64(appendFloat64(appendFloat64(appendFloat64(appendFloat64(
        Append(b, 149), o.BestBid), o.BestAsk), o.Spread), o.Imbalance),
        I64Of(o.Score))

appendOISnapshot(b, o) ==
    appendInt64(appendFloat64(appendFloat64(appendFloat64(
        Append(b, 148), o.OI), o.OIDelta1s), o.OIDelta1m), I64Of(o.Behavior))

\* "for i := 0; i < NumHTF; i++ { b = appendCandleSnapshot(b, &s.HTF[i]) }"
RECURSIVE appendHTF(_, _, _)
appendHTF(b, htf, i) ==
    IF i > NumHTF THEN b
    ELSE CHOOSE r \in { appendHTF(b1, htf, i + 1) :
                          b1 \in {appendCandleSnapshot(b, htf[i])} } : TRUE

\* Snapshot.AppendMsgPack
AppendMsgPack(s, b) ==
    CHOOSE r \in
        { appendHTF(Append(appendFloat64(b5, s.FinalScore), 149), s.HTF, 1) :
          b5 \in { appendOISnapshot(appendOrderbookSnapshot(b4, s.Orderbook), s.OI) :
          b4 \in { appendCandleSnapshot(b3, s.Candle1m) :
          b3 \in { appendCandleSnapshot(b2, s.Candle1s) :
          b2 \in { appendInt64(appendFloat64(appendFloat64(Append(b, 153),
                        s.Price), s.CVD), s.Time) } } } } } : TRUE

(***************************************************************************)
(* A reader of the wire format, as the layout of section 6 of the design   *)
(* describes it: the tokens of a Snapshot in order, each an array header,  *)
(* a float64 or an integer.                                                *)
(***************************************************************************)
CandleLayout == <<"arr9", "int", "f64", "f64", "f64", "f64", "f64", "f64", "f64", "f64">>

SnapshotLayout ==
    <<"arr9", "f64", "f64", "int">> \o CandleLayout \o CandleLayout
    \o <<"arr5", "f64", "f64", "f64", "f64", "int">>
    \o <<"arr4", "f64", "f64", "f64", "int">>
    \o <<"f64", "arr5">>
    \o CandleLayout \o CandleLayout \o CandleLayout \o CandleLayout \o CandleLayout

\* the length of the token of this kind at bs[p], 0 when there is none
TokenLen(bs, p, kind) ==
    IF p > Len(bs) THEN 0
    ELSE IF kind = "arr9" THEN (IF bs[p] = 153 THEN 1 ELSE 0)
    ELSE IF kind = "arr5" THEN (IF bs[p] = 149 THEN 1 ELSE 0)
    ELSE IF kind = "arr4" THEN (IF bs[p] = 148 THEN 1 ELSE 0)
    ELSE IF kind = "f64" THEN (IF bs[p] = 203 /\ p + 8 <= Len(bs) THEN 9 ELSE 0)
    ELSE IF bs[p] <= 127 \/ bs[p] >= 224 THEN 1
    ELSE IF bs[p] = 211 /\ p + 8 <= Len(bs) THEN 9
    ELSE 0

\* the float64 whose eight big-endian bytes start at bs[p]
ReadFloat64(bs, p) ==
    F64(bs[p] \div 128,
        (bs[p] % 128) * 16 + bs[p + 1] \div 16,
        (bs[p + 1] % 16) * 65536 + bs[p + 2] * 256 + bs[p + 3],
        bs[p + 4] * 256 + bs[p + 5],
        bs[p + 6] * 256 + bs[p + 7])

\* the int64 whose eight big-endian bytes start at bs[p] (two's complement)
ReadInt64(bs, p) ==
    I64((IF bs[p + 1] >= 128 THEN bs[p + 1] - 256 ELSE bs[p + 1]) * 16777216
            + bs[p + 2] * 65536 + bs[p + 3] * 256 + bs[p + 4],
        bs[p + 5] * 65536 + bs[p + 6] * 256 + bs[p + 7])

\* the value of the token of this kind at bs[p]
TokenVal(bs, p, kind) ==
    IF kind = "f64" THEN ReadFloat64(bs, p + 1)
    ELSE IF kind = "int"
    THEN (IF bs[p] <= 127 THEN I64(0, bs[p])
          ELSE IF bs[p] >= 224 THEN I64(-1, 16777216 - 256 + bs[p])
          ELSE ReadInt64(bs, p + 1))
    ELSE bs[p]

\* where each token starts, and where the last one ends; a missing token
\* has length 0
RECURSIVE ScanRun(_, _, _, _)
ScanRun(bs, k, last, p) ==
    IF k > last THEN <<p>>
    ELSE CHOOSE r \in { <<q>> \o ScanRun(bs, k + 1, last,
                                          q + TokenLen(bs, q, SnapshotLayout[k])) :
                          q \in {p} } : TRUE

\* the tokens of the layout in runs: the head, two candles, the orderbook,
\* the oi, final_score with the htf header, five candles
LayoutRuns == <<4, 10, 10, 6, 5, 2, 10, 10, 10, 10, 10>>

RECURSIVE ScanRuns(_, _, _, _)
ScanRuns(bs, g, k, p) ==
    IF g > Len(LayoutRuns) THEN <<p>>
    ELSE CHOOSE r \in { SubSeq(run, 1, Len(run) - 1)
                            \o ScanRuns(bs, g + 1, k + LayoutRuns[g], run[Len(run)]) :
                          run \in {ScanRun(bs, k, k + LayoutRuns[g] - 1, p)} } : TRUE

Scan(bs, k, p) == ScanRuns(bs, 1, k, p)

WellFormedAt(bs, pos) ==
    \A k \in DOMAIN SnapshotLayout : pos[k + 1] > pos[k]

\* the Go int of a decoded integer
GoInt(v) == v.hi * 16777216 + v.lo

CandleAt(bs, pos, k) ==
    [Time     |-> TokenVal(bs, pos[k + 1], "int"),
     Open     |-> TokenVal(bs, pos[k + 2], "f64"),
     High     |-> TokenVal(bs, pos[k + 3], "f64"),
     Low      |-> TokenVal(bs, pos[k + 4], "f64"),
     Close    |-> TokenVal(bs, pos[k + 5], "f64"),
     BuyVol   |-> TokenVal(bs, pos[k + 6], "f64"),
     SellVol  |-> TokenVal(bs, pos[k + 7], "f64"),
     Delta    |-> TokenVal(bs, pos[k + 8], "f64"),
     AvgScore |-> TokenVal(bs, pos[k + 9], "f64")]

\* the Snapshot the tokens spell
SnapshotAt(bs, pos) ==
    [Price      |-> TokenVal(bs, pos[2], "f64"),
     CVD        |-> TokenVal(bs, pos[3], "f64"),
     Time       |-> TokenVal(bs, pos[4], "int"),
     Candle1s   |-> CandleAt(bs, pos, 5),
     Candle1m   |-> CandleAt(bs, pos, 15),
     Orderbook  |-> [BestBid   |-> TokenVal(bs, pos[26], "f64"),
                     BestAsk   |-> TokenVal(bs, pos[27], "f64"),
                     Spread    |-> TokenVal(bs, pos[28], "f64"),
                     Imbalance |-> TokenVal(bs, pos[29], "f64"),
                     Score     |-> GoInt(TokenVal(bs, pos[30], "int"))],
     OI         |-> [OI        |-> TokenVal(bs, pos[32], "f64"),
                     OIDelta1s |-> TokenVal(bs, pos[33], "f64"),
                     OIDelta1m |-> TokenVal(bs, pos[34], "f64"),
                     Behavior  |-> GoInt(TokenVal(bs, pos[35], "int"))],
     FinalScore |-> TokenVal(bs, pos[36], "f64"),
     HTF        |-> [i \in 1..NumHTF |-> CandleAt(bs, pos, 28 + 10 * i)]]

\* decode one Snapshot from the front of a stream: the value and the number
\* of bytes it took
DecodeAt(bs, pos) ==
    IF WellFormedAt(bs, pos)
    THEN [pc |-> "decoded", back |-> SnapshotAt(bs, pos), used |-> pos[Len(pos)] - 1]
    ELSE [pc |-> "bad", back |-> << >>, used |-> 0]

Decode(bs) == CHOOSE d \in { DecodeAt(bs, pos) : pos \in {Scan(bs, 1, 1)} } : TRUE

(***************************************************************************)
(* SpecCodec: a Snapshot is encoded as Hub.run and serveWs encode it, into *)
(* an empty buffer, and a reader decodes the frame, alone or followed by   *)
(* the bytes of the next frame.                                            *)
(***************************************************************************)
CodecFloats ==
    { F64(0, 0, 0, 0, 0),                  \* 0
      F64(1, 0, 0, 0, 0),                  \* -0
      F64(0, 1037, 871456, 0, 0),          \* 30000.5
      F64(1, 1026, 563609, 39321, 39322),  \* -12.3
      F64(0, 2047, 524288, 0, 0),          \* NaN
      F64(1, 2046, 1048575, 65535, 65535) }  \* the most negative finite value

CodecInts ==
    { I64Of(n) : n \in {0, 127, 128, 255, 256, -1, -32, -33, -129, 65536} }
    \cup { I64(101327, 15034491), I64(-101328, 1742725) }  \* +-1700000000123

CodecScores == {-100, -33, -32, 0, 4, 100, 127, 128}

CodecCandle(t, a, b) ==
    [Time |-> t, Open |-> a, High |-> b, Low |-> a, Close |-> b,
     BuyVol |-> b, SellVol |-> a, Delta |-> b, AvgScore |-> a]

CodecSnapshot(a, b, t, u, sc) ==
    [Price      |-> a,
     CVD        |-> b,
     Time       |-> t,
     Candle1s   |-> CodecCandle(u, a, b),
     Candle1m   |-> CodecCandle(t, b, a),
     Orderbook  |-> [BestBid |-> a, BestAsk |-> b, Spread |-> a,
                     Imbalance |-> b, Score |-> sc],
     OI         |-> [OI |-> b, OIDelta1s |-> a, OIDelta1m |-> b,
                     Behavior |-> sc % 5],
     FinalScore |-> a,
     HTF        |-> [i \in 1..NumHTF |->
                       IF i % 2 = 1 THEN CodecCandle(u, b, a)
                       ELSE CodecCandle(t, a, b)]]

\* bytes that may follow a frame in a stream
CodecTails == { << >>, <<153>>, <<0, 211>> }

\* msg := snap.AppendMsgPack(make([]byte, 0, 128))
CodecEncode ==
    /\ codec.pc = "idle"
    /\ \E a \in CodecFloats, b \in {F64(0, 1037, 871456, 0, 0), F64(1, 0, 0, 0, 0)},
          t \in CodecInts, u \in {I64Of(5), I64Of(-33)}, sc \in CodecScores :
         \E s \in {CodecSnapshot(a, b, t, u, sc)} :
            codec' = [pc |-> "encoded", in |-> s, out |-> AppendMsgPack(s, << >>),
                      back |-> << >>, used |-> 0]
    /\ UNCHANGED <<feed, oip, ctx, mainpc, flushed, cancelRows, running,
                   ringVars, busVars, engVars, hubVars, bookVars, oiVars,
                   tradeVars>>

\* the reader takes one Snapshot from the front of the stream
CodecDecode ==
    /\ codec.pc = "encoded"
    /\ \E tail \in CodecTails :
         \E d \in {Decode(codec.out \o tail)} :
            codec' = [codec EXCEPT !.pc = d.pc, !.back = d.back, !.used = d.used]
    /\ UNCHANGED <<feed, oip, ctx, mainpc, flushed, cancelRows, running,
                   ringVars, busVars, engVars, hubVars, bookVars, oiVars,
                   tradeVars>>

NextCodec == CodecEncode \/ CodecDecode

SpecCodec == Init /\ [][NextCodec]_vars

\* the integer tokens of a well-formed frame take one byte exactly when
\* their value is in -32..127
IntsMinimal(bs, pos) ==
    \A k \in DOMAIN SnapshotLayout :
        SnapshotLayout[k] = "int" =>
            LET v == TokenVal(bs, pos[k], "int")
            IN  (pos[k + 1] - pos[k] = 1)
                    <=> ((v.hi = 0 /\ v.lo <= 127) \/ (v.hi = -1 /\ v.lo >= 16777216 - 32))

FollowsLayoutAt(s, bs, pos) ==
    /\ WellFormedAt(bs, pos)
    /\ pos[Len(pos)] = Len(bs) + 1
    /\ SnapshotAt(bs, pos) = s
    /\ IntsMinimal(bs, pos)

\* C31: the bytes AppendMsgPack emits are the tokens of the layout in
\* order and nothing else, each float64 as 0xCB and its eight big-endian
\* bytes, each integer as one byte when in -32..127 and as 0xD3 and its
\* eight big-endian bytes otherwise, and their values are the fields of
\* the Snapshot
EncodingFollowsLayout ==
    codec.pc # "idle" =>
        \A pos \in {Scan(codec.out, 1, 1)} : FollowsLayoutAt(codec.in, codec.out, pos)

\* a Snapshot has been encoded whose time takes nine bytes and whose
\* score takes one, with a float64 that has every kind of bit set
EncodedBothIntForms ==
    /\ codec.pc = "encoded"
    /\ codec.in.Time = I64(101327, 15034491)
    /\ codec.in.Orderbook.Score = -32
    /\ codec.in.Price = F64(1, 1026, 563609, 39321, 39322)
    /\ Len(codec.out) > 600

\* C32: encoding what the reader decoded gives the bytes it read, and the
\* reader took exactly the bytes of the frame
RoundTripByteEqual ==
    codec.pc \notin {"idle", "encoded"} =>
        /\ codec.pc = "decoded"
        /\ codec.used = Len(codec.out)
        /\ AppendMsgPack(codec.back, << >>) = codec.out

\* a frame with integers on both sides of a fixint boundary has been
\* decoded from a stream with more bytes after it
DecodedAtBoundaries ==
    /\ codec.pc = "decoded"
    /\ codec.in.Time \in {I64Of(128), I64Of(-33)}
    /\ codec.in.Orderbook.Score \in {127, -32}
    /\ codec.used = Len(codec.out)

(***************************************************************************)
(* Liquidity velocity against the Pressure published before it.            *)
(***************************************************************************)
\* the liq_vel of Pressure p computed from the sums of the Pressure prev
LiqVelAgainst(prev, p) ==
    IF NSign(prev.BidVol) > 0 \/ NSign(prev.AskVol) > 0
    THEN NSub(NSub(p.BidVol, prev.BidVol), NSub(p.AskVol, prev.AskVol))
    ELSE NInt(0)

\* C33: every depth update with bids and asks publishes the liq_vel computed
\* from the sums of the Pressure the update before it published, a zero
\* Pressure included; it is 0 when both of those sums are 0
LiqVelFromPreviousPressure ==
    [][(depthUpdates' = depthUpdates + 1 /\ book'.BidN > 0 /\ book'.AskN > 0)
         => book'.pressure.LiqVel = LiqVelAgainst(book.pressure, book'.pressure)]_vars

(***************************************************************************)
(* SpecOILong: a new oi.Engine polled past the length of its ring.  The    *)
(* first MaxHeadPolls polls and the polls from the OIRingLen-th on return  *)
(* any of LongOISamples, the polls between them a steady value.            *)
(***************************************************************************)
MaxHeadPolls == 3

MaxLongPolls == 23

LongOISamples == { <<100000, 30000>>, <<100100, 30100>>, <<0, 30000>> }

\* the samples the n-th poll may return
LongOISamplesAt(n) ==
    IF n <= MaxHeadPolls \/ n >= OIRingLen THEN LongOISamples
    ELSE { <<100000, 30000>> }

\* OIPoller.poll with a response that decodes and parses
LongOIPoll ==
    /\ Len(oiLog) < MaxLongPolls
    /\ \E sample \in LongOISamplesAt(Len(oiLog) + 1) : Update(sample[1], sample[2])
    /\ UNCHANGED <<ringVars, busVars, engVars, hubVars, bookVars, tradeVars, lifeVars>>

NextOILong == LongOIPoll

SpecOILong == Init /\ [][NextOILong]_vars

\* C34: oi_delta_short is oi - prev_oi when the update before supplied a
\* positive oi and 0 otherwise, the first update publishes zero deltas and
\* NEUTRAL, and oi_delta_long is 0 on the first 20 updates and from the 21st
\* on oi minus the oi supplied exactly 20 updates earlier
OIDeltasFromHistory ==
    \A n \in 1..Len(oiLog) :
        LET r      == oiLog[n]
            prevOI == IF n = 1 THEN 0 ELSE oiLog[n - 1].oi
        IN  /\ r.state.OIDelta1s = IF prevOI > 0 THEN r.oi - prevOI ELSE 0
            /\ n = 1 => /\ r.state.OIDelta1s = 0
                        /\ r.state.OIDelta1m = 0
                        /\ r.state.Behavior = BehaviorNeutral
            /\ r.state.OIDelta1m =
                 IF n <= 20 THEN 0 ELSE r.oi - oiLog[n - 20].oi

\* 22 updates made, the 20th with another oi than the 19th, the 22nd with a
\* long delta that is neither 0 nor its short delta
LongDeltaPastRing ==
    /\ Len(oiLog) >= 22
    /\ oiLog[20].oi # oiLog[19].oi
    /\ oiLog[22].state.OIDelta1m # 0
    /\ oiLog[22].state.OIDelta1m # oiLog[22].state.OIDelta1s
    /\ oiLog[22].state.OIDelta1s # 0

(***************************************************************************)
(* The order of the scorer and the candles inside ProcessTrade.            *)
(***************************************************************************)
\* C35: the delta_1s handed to Scorer.Update is the delta of the 1s candle
\* as the previous trade left it (0 before any trade), whatever the current
\* trade adds to the candle, and the cvd handed to it includes the current
\* trade
ScorerReadsCandleBeforeUpdate ==
    [][Len(ptLog') = Len(ptLog) + 1 =>
         /\ ptOut'.input.Delta1s =
              IF ptLog = << >> THEN RInt(0) ELSE ptOut.snap.Candle1s.Delta
         /\ ptOut'.input.CVD =
              RAdd(SumSigned(Len(ptLog)),
                   IF pt.t.IsBuyer THEN RNeg(pt.t.Quantity) ELSE pt.t.Quantity)]_vars

\* a trade has been scored with a 1s delta that is not zero and that its own
\* signed delta then changed
ScoredWithStaleDelta ==
    /\ Len(ptLog) = 3
    /\ pt.pc = "idle"
    /\ ptOut.input.Delta1s # RInt(0)
    /\ ptOut.snap.Candle1s.Delta # ptOut.input.Delta1s
    /\ ptOut.snap.Candle1s.Delta # RInt(0)
    /\ ptOut.input.CVD = ptOut.snap.CVD

(***************************************************************************)
(* The 1s candle recomputed from the processed trades.                     *)
(***************************************************************************)
\* c.Time of the 1s candle after the first n processed trades
BucketTime(n) == IF n = 0 THEN 0 ELSE TradeSec(n)

\* c.Delta of the 1s candle after the first n processed trades: the signed
\* deltas of the trades of the bucket of trade n that came after the trade
\* that opened the bucket
RECURSIVE BucketDelta(_)
BucketDelta(n) ==
    IF n = 0 THEN RInt(0)
    ELSE IF TradeSec(n) # BucketTime(n - 1) THEN RInt(0)
    ELSE CHOOSE r \in {RAdd(d, IF ptLog[n].IsBuyer THEN RNeg(ptLog[n].Quantity)
                                ELSE ptLog[n].Quantity) :
                         d \in {BucketDelta(n - 1)}} : TRUE

\* the last processed trade opened a new 1s bucket
RolledOver1s ==
    /\ ptLog # << >>
    /\ pt.pc = "idle"
    /\ TradeSec(Len(ptLog)) # BucketTime(Len(ptLog) - 1)

RECURSIVE BucketVol(_, _)
BucketVol(n, buy) ==
    IF n = 0 THEN RInt(0)
    ELSE IF TradeSec(n) # BucketTime(n - 1) THEN RInt(0)
    ELSE CHOOSE r \in {IF RLt(RInt(0), SignedDelta(ptLog[n])) = buy
                       THEN RAdd(v, ptLog[n].Quantity) ELSE v :
                         v \in {BucketVol(n - 1, buy)}} : TRUE

PosInAdded(id) == CHOOSE k \in 1..Len(added) : added[k].id = id

\* the ids of the snapshots fanned out to client c as live frames: those
\* still in its queue and those writePump wrote after the history frames
LiveIds(c) ==
    LET nHist == Len(HistoryFrames(snapshots[c]))
    IN  {send[c][i].snap.id : i \in 1..Len(send[c])}
          \cup {conn[c][i].snap.id : i \in (nHist + 1)..Len(conn[c])}

\* C38: every snapshot added to the ring after an observer's GetAll and taken
\* by the hub from the live channel is a live frame of that observer, unless
\* its queue was full (the observer registered, its writePump running)
NoGapHistoryLive ==
    \A c \in hubClients :
        wpc[c] = "run" =>
            \A id \in taken :
                PosInAdded(id) > histAt[c] => id \in LiveIds(c) \cup dropped[c]

(***************************************************************************)
(* SpecRows: the engine goroutine of main over the Engine itself: each     *)
(* snapshot ProcessTrade returns goes to the ring, the live channel and,   *)
(* when its 1s candle time differs from lastLogTime, to the Logger.        *)
(***************************************************************************)
\* csvlogger.BuildLogRow, the fields taken from the snapshot as they are
LogRow(snap) ==
    [Timestamp |-> snap.Time, Price |-> snap.Price,
     FinalScore |-> snap.FinalScore, Delta1s |-> snap.Candle1s.Delta,
     CVD |-> snap.CVD]

\* the worker logging every snapshot
ShouldLogAlways(snap, last) == TRUE

\* if snap.Candle1s.Time != lastLogTime
ShouldLog(snap, last) == snap.Candle1s.Time # last

\* for trade := range tradeCh, once the iteration before it has ended
RowTakeTrade ==
    /\ Len(added) = Len(ptLog)
    /\ EngineTakeTrade

\* the loop body after ProcessTrade returned: snapBuffer.Add, the offer to
\* snapshotCh and the row
WorkerSubmit ==
    /\ pt.pc = "idle"
    /\ Len(added) < Len(ptLog)
    /\ \E snap \in {ptOut.snap} :
         /\ esnap' = snap
         /\ rb' = RingAdd(rb, snap)
         /\ added' = Append(added, snap)
         /\ snapshotCh' = Offer(snapshotCh, snap)
         /\ IF ShouldLog(snap, lastLogTime)
            THEN /\ lastLogTime' = snap.Candle1s.Time
                 /\ logCh' = Log(logCh, LogRow(snap))
            ELSE UNCHANGED <<lastLogTime, logCh>>
    /\ UNCHANGED <<epc, logged, busVars, hubVars, bookVars, oiVars, tradeVars, lifeVars>>

NextRows ==
    \/ RowTakeTrade
    \/ EngineProcessTrade
    \/ WorkerSubmit
    \/ LoggerRun

SpecRows == Init /\ [][NextRows]_vars

\* C39: a row is submitted only for a trade that opened a new 1s candle, and
\* the delta_1s of every row is 0
RowsOpenNewCandle ==
    [][/\ Len(added') = Len(added) + 1 =>
            /\ (logCh' # logCh \/ lastLogTime' # lastLogTime) => RolledOver1s
            /\ logCh' # logCh => logCh'.buf[Len(logCh'.buf)].Delta1s = RInt(0)
       /\ \A i \in DOMAIN logged' : logged'[i].Delta1s = RInt(0)]_vars

\* the row of a trade that opened a 1s candle after a candle of two trades
\* has been written, the candle before it having ended with a delta
RowAfterTwoTradeCandle ==
    /\ Len(added) = 3
    /\ Len(logged) = 2
    /\ logged[2].Timestamp = ptLog[3].Time
    /\ TradeSec(1) = TradeSec(2)
    /\ ptOut.input.Delta1s # RInt(0)
    /\ logged[2].CVD # RInt(0)

(***************************************************************************)
(* The per-observer queue and its close.                                   *)
(***************************************************************************)
\* C40: a queue is closed only by the hub's unregister case, in the step
\* that removes its observer from the client set; a closed queue belongs to
\* no registered observer, nothing is sent on it and no unregister closes it
\* again
ClosedQueueNeverTouched ==
    [][\A c \in Clients :
         /\ (sendClosed'[c] /\ ~sendClosed[c]) =>
              /\ rpc[c] = "unreg"
              /\ c \in hubClients
              /\ c \notin hubClients'
         /\ sendClosed[c] =>
              /\ sendClosed'[c]
              /\ c \notin hubClients
              /\ Len(send'[c]) <= Len(send[c])
              /\ (rpc[c] = "unreg" /\ rpc'[c] = "close") => hubClients' = hubClients]_vars

\* the hub has fanned a snapshot out to a registered observer after it had
\* closed the queue of another
FanOutPastClosedQueue ==
    \E c \in Clients, d \in hubClients :
        /\ sendClosed[c]
        /\ c \notin hubClients
        /\ \E i \in 1..Len(send[d]) :
             /\ send[d][i].snap.id \in taken
             /\ \A id \in LiveIds(c) \cup dropped[c] : id < send[d][i].snap.id
        /\ LiveIds(c) # {}

=============================================================================
